---- MODULE Spec2Model ----
(***************************************************************************)
(* Provider routing and country targeting engine of reality-mode-search:   *)
(* the attempt planner (lib/providerRouter.ts), the attempt walk of the    *)
(* /api/search and /api/compare-country routes with the daily miss budget, *)
(* and the per-IP sliding-window rate limiter (lib/rateLimit.ts).          *)
(***************************************************************************)
EXTENDS Integers, Sequences, FiniteSets, TLC

(***************************************************************************)
(* Static reference data                                                   *)
(***************************************************************************)

\* JavaScript null (the code never uses "null" as a string value).
null == "null"

\* lib/isoCountries.ts: the closed ISO 3166-1 alpha-2 universe (249 codes).
ISO_COUNTRY_CODES ==
  {
    "AD", "AE", "AF", "AG", "AI", "AL", "AM", "AO", "AQ", "AR", "AS", "AT", "AU", "AW", "AX", "AZ",
    "BA", "BB", "BD", "BE", "BF", "BG", "BH", "BI", "BJ", "BL", "BM", "BN", "BO", "BQ", "BR", "BS",
    "BT", "BV", "BW", "BY", "BZ", "CA", "CC", "CD", "CF", "CG", "CH", "CI", "CK", "CL", "CM", "CN",
    "CO", "CR", "CU", "CV", "CW", "CX", "CY", "CZ", "DE", "DJ", "DK", "DM", "DO", "DZ", "EC", "EE",
    "EG", "EH", "ER", "ES", "ET", "FI", "FJ", "FK", "FM", "FO", "FR", "GA", "GB", "GD", "GE", "GF",
    "GG", "GH", "GI", "GL", "GM", "GN", "GP", "GQ", "GR", "GS", "GT", "GU", "GW", "GY", "HK", "HM",
    "HN", "HR", "HT", "HU", "ID", "IE", "IL", "IM", "IN", "IO", "IQ", "IR", "IS", "IT", "JE", "JM",
    "JO", "JP", "KE", "KG", "KH", "KI", "KM", "KN", "KP", "KR", "KW", "KY", "KZ", "LA", "LB", "LC",
    "LI", "LK", "LR", "LS", "LT", "LU", "LV", "LY", "MA", "MC", "MD", "ME", "MF", "MG", "MH", "MK",
    "ML", "MM", "MN", "MO", "MP", "MQ", "MR", "MS", "MT", "MU", "MV", "MW", "MX", "MY", "MZ", "NA",
    "NC", "NE", "NF", "NG", "NI", "NL", "NO", "NP", "NR", "NU", "NZ", "OM", "PA", "PE", "PF", "PG",
    "PH", "PK", "PL", "PM", "PN", "PR", "PS", "PT", "PW", "PY", "QA", "RE", "RO", "RS", "RU", "RW",
    "SA", "SB", "SC", "SD", "SE", "SG", "SH", "SI", "SJ", "SK", "SL", "SM", "SN", "SO", "SR", "SS",
    "ST", "SV", "SX", "SY", "SZ", "TC", "TD", "TF", "TG", "TH", "TJ", "TK", "TL", "TM", "TN", "TO",
    "TR", "TT", "TV", "TW", "TZ", "UA", "UG", "UM", "US", "UY", "UZ", "VA", "VC", "VE", "VG", "VI",
    "VN", "VU", "WF", "WS", "YE", "YT", "ZA", "ZM", "ZW"
  }

\* lib/brave.ts: countries the Brave API accepts as "country".
BRAVE_SUPPORTED_COUNTRIES ==
  {
    "AR", "AU", "AT", "BE", "BR", "CA", "CL", "DK", "FI", "FR", "DE", "GR", "HK", "IN", "ID", "IT",
    "JP", "KR", "MY", "MX", "NL", "NZ", "NO", "CN", "PL", "PT", "PH", "RU", "SA", "ZA", "ES", "SE",
    "CH", "TW", "TR", "GB", "US",
    "ALL"
  }

BRAVE_GLOBAL_COUNTRY == "ALL"

SERPAPI_UNSUPPORTED_COUNTRIES == {"AX", "CU", "IR", "KP", "SY"}

SEARCHAPI_UNSUPPORTED_COUNTRIES == {"AX", "BL", "BQ", "CW", "MF", "SS", "SX"}

ProviderId == {"brave", "serpapi", "searchapi"}

ProviderKeySource == {"user", "server"}

\* Per provider, the partial map country -> proxy country.
PROVIDER_PROXY_COUNTRY ==
  [p \in ProviderId |->
     CASE p = "serpapi" ->
            ("AX" :> "FI") @@ ("CU" :> "MX") @@ ("IR" :> "TR") @@
            ("KP" :> "KR") @@ ("SY" :> "TR")
       [] p = "searchapi" ->
            ("AX" :> "FI") @@ ("BL" :> "FR") @@ ("BQ" :> "NL") @@
            ("CW" :> "NL") @@ ("MF" :> "FR") @@ ("SS" :> "SD") @@
            ("SX" :> "NL")
       [] p = "brave" ->
            ("AX" :> "FI") @@ ("BL" :> "FR") @@ ("BQ" :> "NL") @@
            ("CW" :> "NL") @@ ("MF" :> "FR") @@ ("SS" :> "ZA") @@
            ("SX" :> "NL") @@ ("CU" :> "MX") @@ ("IR" :> "TR") @@
            ("KP" :> "KR") @@ ("SY" :> "TR") @@ ("UM" :> "US") @@
            ("EH" :> "ES")]

EXACT_COUNTRY_PROVIDER_ORDER == <<"serpapi", "searchapi", "brave">>

\* The global order gone wrong: brave moved to the front.
GLOBAL_PROVIDER_ORDER_BraveFirst == <<"brave", "serpapi", "searchapi">>

GLOBAL_PROVIDER_ORDER == <<"serpapi", "searchapi", "brave">>

\* String.prototype.toLowerCase on the two-letter codes (TLC strings are
\* atomic, so the conversion is tabulated).
toLowerCase ==
    ("AD" :> "ad") @@ ("AE" :> "ae") @@ ("AF" :> "af") @@ ("AG" :> "ag") @@ ("AI" :> "ai") @@ ("AL" :> "al") @@
    ("AM" :> "am") @@ ("AO" :> "ao") @@ ("AQ" :> "aq") @@ ("AR" :> "ar") @@ ("AS" :> "as") @@ ("AT" :> "at") @@
    ("AU" :> "au") @@ ("AW" :> "aw") @@ ("AX" :> "ax") @@ ("AZ" :> "az") @@ ("BA" :> "ba") @@ ("BB" :> "bb") @@
    ("BD" :> "bd") @@ ("BE" :> "be") @@ ("BF" :> "bf") @@ ("BG" :> "bg") @@ ("BH" :> "bh") @@ ("BI" :> "bi") @@
    ("BJ" :> "bj") @@ ("BL" :> "bl") @@ ("BM" :> "bm") @@ ("BN" :> "bn") @@ ("BO" :> "bo") @@ ("BQ" :> "bq") @@
    ("BR" :> "br") @@ ("BS" :> "bs") @@ ("BT" :> "bt") @@ ("BV" :> "bv") @@ ("BW" :> "bw") @@ ("BY" :> "by") @@
    ("BZ" :> "bz") @@ ("CA" :> "ca") @@ ("CC" :> "cc") @@ ("CD" :> "cd") @@ ("CF" :> "cf") @@ ("CG" :> "cg") @@
    ("CH" :> "ch") @@ ("CI" :> "ci") @@ ("CK" :> "ck") @@ ("CL" :> "cl") @@ ("CM" :> "cm") @@ ("CN" :> "cn") @@
    ("CO" :> "co") @@ ("CR" :> "cr") @@ ("CU" :> "cu") @@ ("CV" :> "cv") @@ ("CW" :> "cw") @@ ("CX" :> "cx") @@
    ("CY" :> "cy") @@ ("CZ" :> "cz") @@ ("DE" :> "de") @@ ("DJ" :> "dj") @@ ("DK" :> "dk") @@ ("DM" :> "dm") @@
    ("DO" :> "do") @@ ("DZ" :> "dz") @@ ("EC" :> "ec") @@ ("EE" :> "ee") @@ ("EG" :> "eg") @@ ("EH" :> "eh") @@
    ("ER" :> "er") @@ ("ES" :> "es") @@ ("ET" :> "et") @@ ("FI" :> "fi") @@ ("FJ" :> "fj") @@ ("FK" :> "fk") @@
    ("FM" :> "fm") @@ ("FO" :> "fo") @@ ("FR" :> "fr") @@ ("GA" :> "ga") @@ ("GB" :> "gb") @@ ("GD" :> "gd") @@
    ("GE" :> "ge") @@ ("GF" :> "gf") @@ ("GG" :> "gg") @@ ("GH" :> "gh") @@ ("GI" :> "gi") @@ ("GL" :> "gl") @@
    ("GM" :> "gm") @@ ("GN" :> "gn") @@ ("GP" :> "gp") @@ ("GQ" :> "gq") @@ ("GR" :> "gr") @@ ("GS" :> "gs") @@
    ("GT" :> "gt") @@ ("GU" :> "gu") @@ ("GW" :> "gw") @@ ("GY" :> "gy") @@ ("HK" :> "hk") @@ ("HM" :> "hm") @@
    ("HN" :> "hn") @@ ("HR" :> "hr") @@ ("HT" :> "ht") @@ ("HU" :> "hu") @@ ("ID" :> "id") @@ ("IE" :> "ie") @@
    ("IL" :> "il") @@ ("IM" :> "im") @@ ("IN" :> "in") @@ ("IO" :> "io") @@ ("IQ" :> "iq") @@ ("IR" :> "ir") @@
    ("IS" :> "is") @@ ("IT" :> "it") @@ ("JE" :> "je") @@ ("JM" :> "jm") @@ ("JO" :> "jo") @@ ("JP" :> "jp") @@
    ("KE" :> "ke") @@ ("KG" :> "kg") @@ ("KH" :> "kh") @@ ("KI" :> "ki") @@ ("KM" :> "km") @@ ("KN" :> "kn") @@
    ("KP" :> "kp") @@ ("KR" :> "kr") @@ ("KW" :> "kw") @@ ("KY" :> "ky") @@ ("KZ" :> "kz") @@ ("LA" :> "la") @@
    ("LB" :> "lb") @@ ("LC" :> "lc") @@ ("LI" :> "li") @@ ("LK" :> "lk") @@ ("LR" :> "lr") @@ ("LS" :> "ls") @@
    ("LT" :> "lt") @@ ("LU" :> "lu") @@ ("LV" :> "lv") @@ ("LY" :> "ly") @@ ("MA" :> "ma") @@ ("MC" :> "mc") @@
    ("MD" :> "md") @@ ("ME" :> "me") @@ ("MF" :> "mf") @@ ("MG" :> "mg") @@ ("MH" :> "mh") @@ ("MK" :> "mk") @@
    ("ML" :> "ml") @@ ("MM" :> "mm") @@ ("MN" :> "mn") @@ ("MO" :> "mo") @@ ("MP" :> "mp") @@ ("MQ" :> "mq") @@
    ("MR" :> "mr") @@ ("MS" :> "ms") @@ ("MT" :> "mt") @@ ("MU" :> "mu") @@ ("MV" :> "mv") @@ ("MW" :> "mw") @@
    ("MX" :> "mx") @@ ("MY" :> "my") @@ ("MZ" :> "mz") @@ ("NA" :> "na") @@ ("NC" :> "nc") @@ ("NE" :> "ne") @@
    ("NF" :> "nf") @@ ("NG" :> "ng") @@ ("NI" :> "ni") @@ ("NL" :> "nl") @@ ("NO" :> "no") @@ ("NP" :> "np") @@
    ("NR" :> "nr") @@ ("NU" :> "nu") @@ ("NZ" :> "nz") @@ ("OM" :> "om") @@ ("PA" :> "pa") @@ ("PE" :> "pe") @@
    ("PF" :> "pf") @@ ("PG" :> "pg") @@ ("PH" :> "ph") @@ ("PK" :> "pk") @@ ("PL" :> "pl") @@ ("PM" :> "pm") @@
    ("PN" :> "pn") @@ ("PR" :> "pr") @@ ("PS" :> "ps") @@ ("PT" :> "pt") @@ ("PW" :> "pw") @@ ("PY" :> "py") @@
    ("QA" :> "qa") @@ ("RE" :> "re") @@ ("RO" :> "ro") @@ ("RS" :> "rs") @@ ("RU" :> "ru") @@ ("RW" :> "rw") @@
    ("SA" :> "sa") @@ ("SB" :> "sb") @@ ("SC" :> "sc") @@ ("SD" :> "sd") @@ ("SE" :> "se") @@ ("SG" :> "sg") @@
    ("SH" :> "sh") @@ ("SI" :> "si") @@ ("SJ" :> "sj") @@ ("SK" :> "sk") @@ ("SL" :> "sl") @@ ("SM" :> "sm") @@
    ("SN" :> "sn") @@ ("SO" :> "so") @@ ("SR" :> "sr") @@ ("SS" :> "ss") @@ ("ST" :> "st") @@ ("SV" :> "sv") @@
    ("SX" :> "sx") @@ ("SY" :> "sy") @@ ("SZ" :> "sz") @@ ("TC" :> "tc") @@ ("TD" :> "td") @@ ("TF" :> "tf") @@
    ("TG" :> "tg") @@ ("TH" :> "th") @@ ("TJ" :> "tj") @@ ("TK" :> "tk") @@ ("TL" :> "tl") @@ ("TM" :> "tm") @@
    ("TN" :> "tn") @@ ("TO" :> "to") @@ ("TR" :> "tr") @@ ("TT" :> "tt") @@ ("TV" :> "tv") @@ ("TW" :> "tw") @@
    ("TZ" :> "tz") @@ ("UA" :> "ua") @@ ("UG" :> "ug") @@ ("UM" :> "um") @@ ("US" :> "us") @@ ("UY" :> "uy") @@
    ("UZ" :> "uz") @@ ("VA" :> "va") @@ ("VC" :> "vc") @@ ("VE" :> "ve") @@ ("VG" :> "vg") @@ ("VI" :> "vi") @@
    ("VN" :> "vn") @@ ("VU" :> "vu") @@ ("WF" :> "wf") @@ ("WS" :> "ws") @@ ("YE" :> "ye") @@ ("YT" :> "yt") @@
    ("ZA" :> "za") @@ ("ZM" :> "zm") @@ ("ZW" :> "zw")

\* String.prototype.trim on the credential strings the model feeds in.
trim(s) ==
  CASE s = "" -> ""
    [] s = "  " -> ""
    [] s = " uk " -> "uk"
    [] OTHER -> s

(***************************************************************************)
(* AttemptPlanner: lib/providerRouter.ts                                   *)
(***************************************************************************)

providerSupportsCountry(provider, country) ==
  CASE provider = "brave" -> country \in BRAVE_SUPPORTED_COUNTRIES
    [] provider = "serpapi" -> country \notin SERPAPI_UNSUPPORTED_COUNTRIES
    [] provider = "searchapi" -> country \notin SEARCHAPI_UNSUPPORTED_COUNTRIES

\* hasAnyExactCountrySupport gone wrong: searchapi is left out of the union.
hasAnyExactCountrySupport_NoSearchapi(country) ==
  \/ providerSupportsCountry("brave", country)
  \/ providerSupportsCountry("serpapi", country)

hasAnyExactCountrySupport(country) ==
  \/ providerSupportsCountry("brave", country)
  \/ providerSupportsCountry("serpapi", country)
  \/ providerSupportsCountry("searchapi", country)

\* resolveProxyCountry gone wrong: a country without a table entry stands
\* in for itself.
resolveProxyCountry_FallbackToCountry(provider, country) ==
  LET table == PROVIDER_PROXY_COUNTRY[provider] IN
    IF country \notin DOMAIN table THEN country
    ELSE IF ~providerSupportsCountry(provider, table[country]) THEN null
    ELSE table[country]

resolveProxyCountry(provider, country) ==
  LET table == PROVIDER_PROXY_COUNTRY[provider] IN
    IF country \notin DOMAIN table THEN null
    ELSE IF ~providerSupportsCountry(provider, table[country]) THEN null
    ELSE table[country]

hasAnyTargetedCountrySupport(country) ==
  \/ hasAnyExactCountrySupport(country)
  \/ resolveProxyCountry("brave", country) # null
  \/ resolveProxyCountry("serpapi", country) # null
  \/ resolveProxyCountry("searchapi", country) # null

\* toCountryParam gone wrong: the code is passed on in upper case to every
\* provider.
toCountryParam_AlwaysUpper(provider, country) == country

toCountryParam(provider, country) ==
  IF provider = "brave" THEN country ELSE toLowerCase[country]

\* keyCandidatesForProvider gone wrong: the keys are taken untrimmed.
keyCandidatesForProvider_NoTrim(provider, keys) ==
  LET user == keys.user[provider]
      server == keys.server[provider]
  IN (IF user # "" THEN <<[key |-> user, keySource |-> "user"]>> ELSE <<>>)
     \o (IF server # "" THEN <<[key |-> server, keySource |-> "server"]>> ELSE <<>>)

\* The key candidates of a provider, user key first, blank keys left out.
keyCandidatesForProvider(provider, keys) ==
  LET user == trim(keys.user[provider])
      server == trim(keys.server[provider])
  IN (IF user # "" THEN <<[key |-> user, keySource |-> "user"]>> ELSE <<>>)
     \o (IF server # "" THEN <<[key |-> server, keySource |-> "server"]>> ELSE <<>>)

\* The identity key pushAttempt compares (v ?? "none" for the nullable fields).
signature(a) ==
  LET orNone(v) == IF v = null THEN "none" ELSE v
  IN <<a.provider, a.keySource, orNone(a.requestedCountry),
       orNone(a.resolvedCountry), orNone(a.countryParam), a.countryResolution>>

pushAttempt(out, a) ==
  IF \E i \in 1..Len(out) : signature(out[i]) = signature(a)
  THEN out
  ELSE Append(out, a)

RECURSIVE pushCandidates(_, _, _, _)
pushCandidates(out, cands, i, proto) ==
  IF i > Len(cands) THEN out
  ELSE pushCandidates(
         pushAttempt(out, [proto EXCEPT !.key = cands[i].key,
                                        !.keySource = cands[i].keySource]),
         cands, i + 1, proto)

\* addProviderAttempts gone wrong: every candidate is pushed straight onto
\* the list with the first candidate's key and key source.
addProviderAttempts_FirstCandidate(out, keys, provider, requestedCountry, resolvedCountry, countryParam, exactCountryApplied, providerSupports, countryResolution, reason) ==
  LET cands == keyCandidatesForProvider(provider, keys)
  IN out \o [i \in 1..Len(cands) |->
       [provider |-> provider, key |-> cands[1].key, keySource |-> cands[1].keySource,
        requestedCountry |-> requestedCountry,
        resolvedCountry |-> resolvedCountry,
        countryParam |-> countryParam,
        exactCountryApplied |-> exactCountryApplied,
        providerSupportsCountry |-> providerSupports,
        countryResolution |-> countryResolution,
        reason |-> reason]]

\* The closure addProviderAttempts of buildProviderAttempts: one attempt per
\* key candidate of the provider, appended to the plan built so far.
addProviderAttempts(out, keys, provider, requestedCountry, resolvedCountry, countryParam, exactCountryApplied, providerSupports, countryResolution, reason) ==
  pushCandidates(out, keyCandidatesForProvider(provider, keys), 1,
    [provider |-> provider, key |-> "", keySource |-> "user",
     requestedCountry |-> requestedCountry,
     resolvedCountry |-> resolvedCountry,
     countryParam |-> countryParam,
     exactCountryApplied |-> exactCountryApplied,
     providerSupportsCountry |-> providerSupports,
     countryResolution |-> countryResolution,
     reason |-> reason])

\* The first loop gone wrong: the support test is missing, every provider
\* gets an exact attempt.
RECURSIVE exactTier_NoSupportCheck(_, _, _, _)
exactTier_NoSupportCheck(out, i, countryHint, keys) ==
  IF i > Len(EXACT_COUNTRY_PROVIDER_ORDER) THEN out
  ELSE LET provider == EXACT_COUNTRY_PROVIDER_ORDER[i] IN
    exactTier_NoSupportCheck(
      addProviderAttempts(out, keys, provider, countryHint, countryHint,
        toCountryParam(provider, countryHint), TRUE, TRUE,
        "exact", "exact_country_match"),
      i + 1, countryHint, keys)

\* First loop of buildProviderAttempts: providers that support the country.
RECURSIVE exactTier(_, _, _, _)
exactTier(out, i, countryHint, keys) ==
  IF i > Len(EXACT_COUNTRY_PROVIDER_ORDER) THEN out
  ELSE LET provider == EXACT_COUNTRY_PROVIDER_ORDER[i] IN
    IF ~providerSupportsCountry(provider, countryHint)
    THEN exactTier(out, i + 1, countryHint, keys)
    ELSE exactTier(
           addProviderAttempts(out, keys, provider, countryHint, countryHint,
             toCountryParam(provider, countryHint), TRUE, TRUE,
             "exact", "exact_country_match"),
           i + 1, countryHint, keys)

\* Second loop: providers without exact support that have a valid proxy.
RECURSIVE proxyTier(_, _, _, _)
proxyTier(out, i, countryHint, keys) ==
  IF i > Len(EXACT_COUNTRY_PROVIDER_ORDER) THEN out
  ELSE LET provider == EXACT_COUNTRY_PROVIDER_ORDER[i]
           proxyCountry == resolveProxyCountry(provider, countryHint)
       IN
    IF providerSupportsCountry(provider, countryHint) \/ proxyCountry = null
    THEN proxyTier(out, i + 1, countryHint, keys)
    ELSE proxyTier(
           addProviderAttempts(out, keys, provider, countryHint, proxyCountry,
             toCountryParam(provider, proxyCountry), FALSE, FALSE,
             "proxy", "proxy_country_match"),
           i + 1, countryHint, keys)

\* The third loop gone wrong: with a country hint the worldwide route is
\* planned for the providers that support the country only.
RECURSIVE globalTier_SupportedOnly(_, _, _, _)
globalTier_SupportedOnly(out, i, countryHint, keys) ==
  IF i > Len(GLOBAL_PROVIDER_ORDER) THEN out
  ELSE LET provider == GLOBAL_PROVIDER_ORDER[i]
           countryParam == IF provider = "brave" THEN BRAVE_GLOBAL_COUNTRY ELSE null
       IN globalTier_SupportedOnly(
            IF countryHint # null
            THEN IF providerSupportsCountry(provider, countryHint)
                 THEN addProviderAttempts(out, keys, provider, countryHint, null,
                        countryParam, FALSE, TRUE, "global", "global_fallback")
                 ELSE out
            ELSE addProviderAttempts(out, keys, provider, null, null,
                   countryParam, FALSE, TRUE, "global", "global_default"),
            i + 1, countryHint, keys)

\* Third loop (and the only loop when there is no country hint): the
\* worldwide route of every provider.
RECURSIVE globalTier(_, _, _, _)
globalTier(out, i, countryHint, keys) ==
  IF i > Len(GLOBAL_PROVIDER_ORDER) THEN out
  ELSE LET provider == GLOBAL_PROVIDER_ORDER[i]
           countryParam == IF provider = "brave" THEN BRAVE_GLOBAL_COUNTRY ELSE null
       IN globalTier(
            IF countryHint # null
            THEN addProviderAttempts(out, keys, provider, countryHint, null,
                   countryParam, FALSE,
                   providerSupportsCountry(provider, countryHint),
                   "global", "global_fallback")
            ELSE addProviderAttempts(out, keys, provider, null, null,
                   countryParam, FALSE, TRUE, "global", "global_default"),
            i + 1, countryHint, keys)

\* buildProviderAttempts gone wrong: a request without a country hint is
\* planned as one for the default country US.
buildProviderAttempts_DefaultUs(countryHint, keys) ==
  LET country == IF countryHint # null THEN countryHint ELSE "US"
  IN globalTier(
       proxyTier(exactTier(<<>>, 1, country, keys), 1, country, keys),
       1, country, keys)

\* buildProviderAttempts gone wrong: the proxy loop placed before the exact
\* loop.
buildProviderAttempts_ProxyFirst(countryHint, keys) ==
  IF countryHint # null
  THEN globalTier(
         exactTier(proxyTier(<<>>, 1, countryHint, keys), 1, countryHint, keys),
         1, countryHint, keys)
  ELSE globalTier(<<>>, 1, null, keys)

buildProviderAttempts(countryHint, keys) ==
  IF countryHint # null
  THEN globalTier(
         proxyTier(exactTier(<<>>, 1, countryHint, keys), 1, countryHint, keys),
         1, countryHint, keys)
  ELSE globalTier(<<>>, 1, null, keys)

hasAnyProviderKey(keys) ==
  \/ \E p \in DOMAIN keys.user : trim(keys.user[p]) # ""
  \/ \E p \in DOMAIN keys.server : trim(keys.server[p]) # ""

hasAnyUserProviderKey(keys) ==
  \E p \in DOMAIN keys.user : trim(keys.user[p]) # ""

\* parseCountryHint: upper-cases the raw parameter and accepts it only when
\* it is an ISO code.  String.prototype.toUpperCase is tabulated: the
\* lower-case codes through the table above, the other inputs one by one.
toUpperCase(raw) ==
  IF \E c \in DOMAIN toLowerCase : toLowerCase[c] = raw
  THEN CHOOSE c \in DOMAIN toLowerCase : toLowerCase[c] = raw
  ELSE CASE raw = "zz" -> "ZZ"
         [] raw = "Fr" -> "FR"
         [] raw = "fra" -> "FRA"
         [] OTHER -> raw

\* parseCountryHint gone wrong: the membership test is missing.
parseCountryHint_NoIsoCheck(rawCountry) ==
  LET countryUpper == IF rawCountry # null THEN toUpperCase(rawCountry) ELSE ""
  IN IF countryUpper = "" THEN null ELSE countryUpper

\* parseCountryHint gone wrong: the parameter is looked up as typed.
parseCountryHint_NoUpperCase(rawCountry) ==
  LET countryUpper == IF rawCountry # null THEN rawCountry ELSE ""
  IN IF countryUpper = "" THEN null
     ELSE IF countryUpper \notin ISO_COUNTRY_CODES THEN null
     ELSE countryUpper

parseCountryHint(rawCountry) ==
  LET countryUpper == IF rawCountry # null THEN toUpperCase(rawCountry) ELSE ""
  IN IF countryUpper = "" THEN null
     ELSE IF countryUpper \notin ISO_COUNTRY_CODES THEN null
     ELSE countryUpper

(***************************************************************************)
(* CostControl: lib/rateLimit.ts and the daily miss budget of /api/search  *)
(***************************************************************************)

WINDOW_MS == 3600000

LIMIT == 30

MS_PER_DAY == 86400000

\* The value of serverKeyDailyMissState.date before the first consultation
\* (the empty string, which no date equals).
NoDate == -1

\* The rounding gone wrong: down instead of up.
ceilDiv1000_Floor(x) == x \div 1000

\* Math.ceil(x / 1000) on integers.
ceilDiv1000(x) == -((-x) \div 1000)

max(a, b) == IF a >= b THEN a ELSE b

\* Pruning gone wrong: "if" for "while", at most one expired timestamp goes.
shiftExpired_Once(times, cutoff) ==
  IF Len(times) > 0 /\ times[1] < cutoff THEN Tail(times) ELSE times

\* Pruning gone wrong: expired timestamps are never shifted out.
shiftExpired_Never(times, cutoff) == times

\* while (times.length > 0 && times[0] < cutoff) times.shift()
RECURSIVE shiftExpired(_, _)
shiftExpired(times, cutoff) ==
  IF Len(times) > 0 /\ times[1] < cutoff
  THEN shiftExpired(Tail(times), cutoff)
  ELSE times

\* buckets.get(key) ?? []
bucketOf(b, key) == IF key \in DOMAIN b THEN b[key] ELSE <<>>

\* rateLimit gone wrong: the rejection branch is never taken.
rateLimit_NeverRejects(b, ip, now) ==
  LET key == IF ip = "" THEN "unknown" ELSE ip
      times == shiftExpired(bucketOf(b, key), now - WINDOW_MS)
  IN [allowed |-> TRUE,
      retryAfterSeconds |-> 0,
      buckets |-> (key :> Append(times, now)) @@ b]

\* rateLimit gone wrong: "times.length > LIMIT" lets one check too many in.
rateLimit_OffByOne(b, ip, now) ==
  LET key == IF ip = "" THEN "unknown" ELSE ip
      times == shiftExpired(bucketOf(b, key), now - WINDOW_MS)
  IN IF Len(times) > LIMIT
     THEN [allowed |-> FALSE,
           retryAfterSeconds |-> max(1, ceilDiv1000(times[1] + WINDOW_MS - now)),
           buckets |-> (key :> times) @@ b]
     ELSE [allowed |-> TRUE,
           retryAfterSeconds |-> 0,
           buckets |-> (key :> Append(times, now)) @@ b]

\* rateLimit gone wrong: a rejected check is recorded as well.
rateLimit_AppendOnReject(b, ip, now) ==
  LET key == IF ip = "" THEN "unknown" ELSE ip
      times == shiftExpired(bucketOf(b, key), now - WINDOW_MS)
  IN IF Len(times) >= LIMIT
     THEN [allowed |-> FALSE,
           retryAfterSeconds |-> max(1, ceilDiv1000(times[1] + WINDOW_MS - now)),
           buckets |-> (key :> Append(Tail(times), now)) @@ b]
     ELSE [allowed |-> TRUE,
           retryAfterSeconds |-> 0,
           buckets |-> (key :> Append(times, now)) @@ b]

\* rateLimit gone wrong: the identity is used as the key as it comes.
rateLimit_RawKey(b, ip, now) ==
  LET key == ip
      times == shiftExpired(bucketOf(b, key), now - WINDOW_MS)
  IN IF Len(times) >= LIMIT
     THEN [allowed |-> FALSE,
           retryAfterSeconds |-> max(1, ceilDiv1000(times[1] + WINDOW_MS - now)),
           buckets |-> (key :> times) @@ b]
     ELSE [allowed |-> TRUE,
           retryAfterSeconds |-> 0,
           buckets |-> (key :> Append(times, now)) @@ b]

\* rateLimit(ip, nowMs) on the bucket map b: the returned object and the
\* bucket map the call leaves behind.
rateLimit(b, ip, now) ==
  LET key == IF ip = "" THEN "unknown" ELSE ip
      stored == bucketOf(b, key)
      cutoff == now - WINDOW_MS
      times == shiftExpired(stored, cutoff)
  IN IF Len(times) >= LIMIT
     THEN [allowed |-> FALSE,
           retryAfterSeconds |-> max(1, ceilDiv1000(times[1] + WINDOW_MS - now)),
           buckets |-> (key :> times) @@ b]
     ELSE [allowed |-> TRUE,
           retryAfterSeconds |-> 0,
           buckets |-> (key :> Append(times, now)) @@ b]

\* new Date().toISOString().slice(0, 10): the UTC calendar date, identified
\* by the number of whole days since the epoch.
todayUtc(now) == now \div MS_PER_DAY

\* consumeServerMissBudget gone wrong: "misses > dailyMissBudget" admits one
\* attempt beyond the ceiling.
consumeServerMissBudget_OffByOne(state, today, dailyMissBudget) ==
  LET fresh == IF state.date # today THEN [date |-> today, misses |-> 0] ELSE state
  IN IF fresh.misses > dailyMissBudget
     THEN [allowed |-> FALSE, state |-> fresh]
     ELSE [allowed |-> TRUE, state |-> [fresh EXCEPT !.misses = @ + 1]]

\* consumeServerMissBudget gone wrong: the increment is made on a copy and
\* never reaches the module state.
consumeServerMissBudget_LocalCopy(state, today, dailyMissBudget) ==
  LET fresh == IF state.date # today THEN [date |-> today, misses |-> 0] ELSE state
  IN IF fresh.misses >= dailyMissBudget
     THEN [allowed |-> FALSE, state |-> fresh]
     ELSE [allowed |-> TRUE, state |-> fresh]

\* consumeServerMissBudget gone wrong: a new date is recorded but the
\* counter is carried over.
consumeServerMissBudget_NoReset(state, today, dailyMissBudget) ==
  LET fresh == IF state.date # today THEN [state EXCEPT !.date = today] ELSE state
  IN IF fresh.misses >= dailyMissBudget
     THEN [allowed |-> FALSE, state |-> fresh]
     ELSE [allowed |-> TRUE, state |-> [fresh EXCEPT !.misses = @ + 1]]

\* consumeServerMissBudget: the returned boolean and the module state the
\* call leaves behind.
consumeServerMissBudget(state, today, dailyMissBudget) ==
  LET fresh == IF state.date # today THEN [date |-> today, misses |-> 0] ELSE state
  IN IF fresh.misses >= dailyMissBudget
     THEN [allowed |-> FALSE, state |-> fresh]
     ELSE [allowed |-> TRUE, state |-> [fresh EXCEPT !.misses = @ + 1]]

(***************************************************************************)
(* State                                                                   *)
(***************************************************************************)

VARIABLES
  nowMs,                    \* the wall clock, Date.now()
  buckets,                  \* lib/rateLimit.ts: Map ip -> timestamps
  serverKeyDailyMissState,  \* /api/search: { date, misses }
  serverKeys,               \* process.env.*_API_KEY
  dailyMissBudget,          \* envInt("DAILY_MISS_BUDGET", ...)
  pc,                       \* per request: "new", "walk", "await", "done"
  req,                      \* per request: route, ip, query, country hint, keys
  attempts,                 \* per request: the plan of buildProviderAttempts
  idx,                      \* per request: position of the walk in the plan
  attemptTrace,             \* per request: attemptTrace / routing.attempts
  selected,                 \* per request: plan index of the winner, 0 = null
  response,                 \* per request: the response returned
  outbound,                 \* history: per request, the upstream calls issued
  admitted,                 \* history: per UTC day, server attempts let through
  rejectedAt,               \* history: per identity, instants of the requests answered 400 or 503 before the walk
  rl,                       \* last rateLimit call: its arguments and result
  planIn,                   \* planner under test: its arguments
  plan,                     \* planner under test: its result
  libIn,                    \* result post-processing under test: function and argument
  libOut                    \* result post-processing under test: the value returned

vars == <<nowMs, buckets, serverKeyDailyMissState, serverKeys, dailyMissBudget, pc, req, attempts, idx, attemptTrace, selected, response, outbound, admitted, rejectedAt, rl, planIn, plan, libIn, libOut>>

routeVars == <<serverKeyDailyMissState, serverKeys, dailyMissBudget, pc, req, attempts, idx, attemptTrace, selected, response, outbound, admitted, rejectedAt>>

planVars == <<planIn, plan>>

libVars == <<libIn, libOut>>

(***************************************************************************)
(* Bounds and input sets                                                   *)
(***************************************************************************)

MaxDailyMissBudget == 2

MaxDay == 1

MaxOtherChecks == 1

\* The requests handled concurrently by the process.
Reqs == {"r1", "r2"}

Days == 0..MaxDay

NoKeys == [p \in ProviderId |-> ""]

\* Server credentials of the process (environment variables).
ServerKeyChoices ==
  { NoKeys,
    [NoKeys EXCEPT !["serpapi"] = "sk-serp"],
    [NoKeys EXCEPT !["serpapi"] = "sk-serp", !["brave"] = "sk-brave"] }

\* x-user-*-key headers of a request, as sent (untrimmed).
UserKeyChoices ==
  { NoKeys,
    [NoKeys EXCEPT !["brave"] = " uk "],
    [NoKeys EXCEPT !["serpapi"] = "  "] }

\* normalizeQuery on the raw "q" parameters fed in.
normalizeQuery(raw) == IF raw = " Hello " THEN "hello" ELSE ""

\* Request inputs of the single-request walk: client ip, raw "q", raw
\* "country", user key headers.
WalkInputs ==
  [ip : {"", "10.0.0.1"}, qRaw : {"", " Hello "}, rawCountry : {null, "fr", "ax", "zz"}, hdr : UserKeyChoices]

\* Request inputs of the concurrent requests.
ConcurrentInputs ==
  [ip : {""}, qRaw : {" Hello "}, rawCountry : {null, "fr"}, hdr : {NoKeys, [NoKeys EXCEPT !["brave"] = " uk "]}]

\* What a fetch can end in: a 2xx response with a JSON body, a 2xx response
\* whose body is not JSON, a non-2xx response, the abort after 10 s and a
\* transport failure.
Upstreams ==
  { [kind |-> "ok", threw |-> FALSE, httpStatus |-> 200, body |-> "json"],
    [kind |-> "unparseable", threw |-> FALSE, httpStatus |-> 200, body |-> "garbage"],
    [kind |-> "http_error", threw |-> FALSE, httpStatus |-> 500, body |-> "json"],
    [kind |-> "timeout", threw |-> TRUE, httpStatus |-> 0, body |-> ""],
    [kind |-> "transport", threw |-> TRUE, httpStatus |-> 0, body |-> ""] }

\* The fetch outcomes the concurrent requests see.
OkOrTimeout ==
  { [kind |-> "ok", threw |-> FALSE, httpStatus |-> 200, body |-> "json"],
    [kind |-> "timeout", threw |-> TRUE, httpStatus |-> 0, body |-> ""] }

\* The meta of a body that reports no selected attempt.
NoMeta ==
  [provider |-> "none", providers_tried |-> <<>>, provider_key_source |-> "none", provider_route_reason |-> "none",
   exact_country_applied |-> FALSE, applied_country_param |-> null, fetched_with |-> "none", deduped |-> 0, returned |-> 0]

NoResponse ==
  [status |-> 0, error |-> "none", cacheMode |-> "none", cacheControl |-> null, cdnCacheControl |-> null,
   meta |-> NoMeta]


(***************************************************************************)
(* lib/url.ts: canonical URLs and deduplication                            *)
(*                                                                         *)
(* TLC strings are atomic, so a URL string is kept as the pieces its text  *)
(* is made of: surrounding white space, and either nothing, text that      *)
(* new URL() rejects, or scheme://host/path?query#hash with the query as   *)
(* the list of its percent-encoded key=value pairs.                        *)
(***************************************************************************)

\* The string "".
EmptyString ==
  [pad |-> FALSE, kind |-> "empty", scheme |-> "", host |-> "", path |-> "", query |-> <<>>, hash |-> ""]

\* A string new URL() throws on.
TextString(pad, text) ==
  [pad |-> pad, kind |-> "text", scheme |-> "", host |-> text, path |-> "", query |-> <<>>, hash |-> ""]

\* String.prototype.trim on a URL string.
trimUrl(s) == [s EXCEPT !.pad = FALSE]

\* A string that parses as a URL, written as its pieces.
UrlString(pad, scheme, host, path, query, hash) ==
  [pad |-> pad, kind |-> "url", scheme |-> scheme, host |-> host, path |-> path, query |-> query, hash |-> hash]

\* Schemes whose host the URL parser lower-cases by itself.
SPECIAL_SCHEMES == {"https"}

\* String.prototype.toLowerCase on the host names used.
hostToLowerCase(h) ==
  CASE h = "Example.com" -> "example.com"
    [] h = "EXAMPLE.com" -> "example.com"
    [] OTHER -> h

\* application/x-www-form-urlencoded parsing of one key or value.
formDecode(t) ==
  CASE t = "x%20y" -> "x y"
    [] t = "x+y" -> "x y"
    [] t = "%75tm_medium" -> "utm_medium"
    [] OTHER -> t

\* application/x-www-form-urlencoded serialisation of one key or value.
formEncode(t) ==
  CASE t = "x y" -> "x+y"
    [] OTHER -> t

\* String.prototype.toLowerCase on the parameter names used.
keyToLowerCase(k) ==
  CASE k = "B" -> "b"
    [] k = "Gclid" -> "gclid"
    [] k = "UTM_Source" -> "utm_source"
    [] OTHER -> k

\* key.startsWith("utm_") on the lower-cased names.
startsWithUtm(key) == key \in {"utm_source", "utm_medium"}

TRACKING_PARAMS == {"gclid", "fbclid", "mc_cid", "mc_eid", "igshid"}

\* The collation order String.prototype.localeCompare sorts by, over the
\* keys and values used: digits before letters, letters alphabetically
\* whatever their case, lower case before upper case of the same letter.
COLLATION ==
  <<"", "1", "123", "2", "a", "a.com", "b", "B", "b.us", "c.fr", "com", "en", "fr", "FR",
    "unknown", "us", "US", "x", "x y">>

collationRank(t) == CHOOSE i \in 1..Len(COLLATION) : COLLATION[i] = t

\* a.localeCompare(b): negative, zero or positive.
localeCompare(a, b) ==
  IF collationRank(a) < collationRank(b) THEN -1
  ELSE IF collationRank(a) > collationRank(b) THEN 1 ELSE 0

\* new URL(input) for a string it accepts: the parser lower-cases the host
\* of a special scheme, and searchParams holds the decoded pairs.
newURL(input) ==
  [scheme |-> input.scheme,
   hostname |-> IF input.scheme \in SPECIAL_SCHEMES THEN hostToLowerCase(input.host) ELSE input.host,
   pathname |-> input.path,
   searchParams |-> [i \in 1..Len(input.query) |->
                       [k |-> formDecode(input.query[i].k), v |-> formDecode(input.query[i].v)]],
   hash |-> input.hash]

\* new URLSearchParams(kept).toString(), pair by pair.
searchParamsToString(kept) ==
  [i \in 1..Len(kept) |-> [k |-> formEncode(kept[i].k), v |-> formEncode(kept[i].v)]]

\* The comparator of kept.sort: by key, then by value.
compareParams(a, b) ==
  LET kc == localeCompare(a.k, b.k)
  IN IF kc # 0 THEN kc ELSE localeCompare(a.v, b.v)

\* Array.prototype.sort is stable: an element goes after those that do not
\* compare greater.
insertParam(sorted, x) ==
  LET n == Cardinality({i \in 1..Len(sorted) : compareParams(sorted[i], x) <= 0})
  IN SubSeq(sorted, 1, n) \o <<x>> \o SubSeq(sorted, n + 1, Len(sorted))

RECURSIVE sortParams(_)
sortParams(kept) ==
  IF kept = <<>> THEN <<>>
  ELSE insertParam(sortParams(SubSeq(kept, 1, Len(kept) - 1)), kept[Len(kept)])

\* The loop over url.searchParams.entries(): tracking parameters are skipped.
keptParams(searchParams) ==
  LET keep(p) ==
        LET key == keyToLowerCase(p.k)
        IN ~startsWithUtm(key) /\ key \notin TRACKING_PARAMS
  IN SelectSeq(searchParams, keep)

\* url.toString() once hostname, hash and search are set.
urlToString(url, search) ==
  [pad |-> FALSE, kind |-> "url", scheme |-> url.scheme, host |-> url.hostname, path |-> url.pathname,
   query |-> search, hash |-> url.hash]

\* canonicalizeUrl gone wrong: the kept parameters are not sorted.
canonicalizeUrl_NoSort(rawUrl) ==
  LET input == trimUrl(rawUrl)
  IN IF input.kind = "empty" THEN EmptyString
     ELSE IF input.kind = "text" THEN input
     ELSE LET url == newURL(input)
              lowered == [url EXCEPT !.hostname = hostToLowerCase(url.hostname), !.hash = ""]
              kept == keptParams(url.searchParams)
          IN urlToString(lowered, searchParamsToString(kept))

canonicalizeUrl(rawUrl) ==
  LET input == trimUrl(rawUrl)
  IN IF input.kind = "empty" THEN EmptyString
     ELSE IF input.kind = "text" THEN input
     ELSE LET url == newURL(input)
              lowered == [url EXCEPT !.hostname = hostToLowerCase(url.hostname), !.hash = ""]
              kept == sortParams(keptParams(url.searchParams))
          IN urlToString(lowered, searchParamsToString(kept))

\* The key a result is remembered by: canonicalizeUrl(raw) || raw.
canonKey(raw) ==
  LET canon == canonicalizeUrl(raw)
  IN IF canon = EmptyString THEN raw ELSE canon

\* dedupByCanonicalUrl gone wrong: a later result replaces the earlier one
\* with the same key.
RECURSIVE dedupLoop_KeepLast(_, _, _, _)
dedupLoop_KeepLast(results, i, seen, out) ==
  IF i > Len(results) THEN out
  ELSE LET r == results[i]
           raw == trimUrl(r.url)
       IN IF raw = EmptyString THEN dedupLoop_KeepLast(results, i + 1, seen, Append(out, r))
          ELSE LET canon == canonKey(raw)
                   keep(o) == trimUrl(o.url) = EmptyString \/ canonKey(trimUrl(o.url)) # canon
               IN dedupLoop_KeepLast(results, i + 1, seen \cup {canon}, Append(SelectSeq(out, keep), r))

\* dedupByCanonicalUrl gone wrong: the empty URL is a key like any other.
RECURSIVE dedupLoop_EmptyIsKey(_, _, _, _)
dedupLoop_EmptyIsKey(results, i, seen, out) ==
  IF i > Len(results) THEN out
  ELSE LET r == results[i]
           raw == trimUrl(r.url)
           canon == canonKey(raw)
       IN IF canon \in seen THEN dedupLoop_EmptyIsKey(results, i + 1, seen, out)
          ELSE dedupLoop_EmptyIsKey(results, i + 1, seen \cup {canon}, Append(out, r))

\* The for loop of dedupByCanonicalUrl from result i on, with the keys seen
\* and the results kept so far.
RECURSIVE dedupLoop(_, _, _, _)
dedupLoop(results, i, seen, out) ==
  IF i > Len(results) THEN out
  ELSE LET r == results[i]
           raw == trimUrl(r.url)
       IN IF raw = EmptyString THEN dedupLoop(results, i + 1, seen, Append(out, r))
          ELSE LET canon == canonKey(raw)
               IN IF canon \in seen THEN dedupLoop(results, i + 1, seen, out)
                  ELSE dedupLoop(results, i + 1, seen \cup {canon}, Append(out, r))

dedupByCanonicalUrl(results) == dedupLoop(results, 1, {}, <<>>)

(***************************************************************************)
(* lib/reality.ts: the reality panel                                       *)
(***************************************************************************)

\* pct(count, total): the share in tenths of a percent, Math.round of
\* count / total * 1000 (the code divides the rounded value by ten).
pct(count, total) ==
  IF total <= 0 THEN 0 ELSE (2000 * count + total) \div (2 * total)

\* values.filter(Boolean): the empty string is dropped.
filterBoolean(values) ==
  LET nonEmpty(v) == v # ""
  IN SelectSeq(values, nonEmpty)

\* The keys of the Map counts, in the order of their first set().
RECURSIVE mapKeys(_)
mapKeys(values) ==
  IF values = <<>> THEN <<>>
  ELSE LET before == mapKeys(SubSeq(values, 1, Len(values) - 1))
           v == values[Len(values)]
       IN IF \E i \in 1..Len(before) : before[i] = v THEN before ELSE Append(before, v)

\* counts.get(key) once the loop is over.
countOf(values, key) == Cardinality({i \in 1..Len(values) : values[i] = key})

\* The comparator of the rows gone wrong: equal counts compare equal.
compareRows_CountOnly(a, b) == b.count - a.count

\* The comparator of the rows: count descending, then key ascending.
compareRows(a, b) ==
  IF b.count # a.count THEN b.count - a.count ELSE localeCompare(a.key, b.key)

insertRow(sorted, x) ==
  LET n == Cardinality({i \in 1..Len(sorted) : compareRows(sorted[i], x) <= 0})
  IN SubSeq(sorted, 1, n) \o <<x>> \o SubSeq(sorted, n + 1, Len(sorted))

RECURSIVE sortRows(_)
sortRows(rows) ==
  IF rows = <<>> THEN <<>>
  ELSE insertRow(sortRows(SubSeq(rows, 1, Len(rows) - 1)), rows[Len(rows)])

histogram(values, total) ==
  LET keys == mapKeys(values)
      rows == [i \in 1..Len(keys) |->
                 [key |-> keys[i], count |-> countOf(values, keys[i]),
                  pct |-> pct(countOf(values, keys[i]), total)]]
  IN sortRows(rows)

\* new Set(values).size
distinctCount(values) == Cardinality({values[i] : i \in 1..Len(values)})

computeRealityPanel(results) ==
  LET total == Len(results)
      domains == filterBoolean([i \in 1..Len(results) |-> results[i].domain])
      tlds == filterBoolean([i \in 1..Len(results) |-> results[i].tld])
      countries == filterBoolean([i \in 1..Len(results) |-> results[i].country_inferred])
      langs == filterBoolean([i \in 1..Len(results) |-> results[i].lang_detected])
      known(c) == c # "unknown"
  IN [total_results |-> total,
      distinct_domains |-> distinctCount(domains),
      distinct_tlds |-> distinctCount(tlds),
      distinct_countries_inferred |-> distinctCount(SelectSeq(countries, known)),
      histograms |-> [tld |-> histogram(tlds, total),
                      country_inferred |-> histogram(countries, total),
                      lang_detected |-> histogram(langs, total),
                      top_domains |-> histogram(domains, total)]]

(***************************************************************************)
(* /api/search                                                             *)
(***************************************************************************)

\* NextResponse.json(body, {status}): a response with no cache header yet.
\* cacheMode is the body's cache.mode ("none" for a body without one); the
\* body carries no meta until the success branch fills it in.
json(status, error, cacheMode) ==
  [status |-> status, error |-> error, cacheMode |-> cacheMode, cacheControl |-> null, cdnCacheControl |-> null,
   meta |-> NoMeta]

setNoStore(res) == [res EXCEPT !.cacheControl = "private, no-store"]

setServerCdnCache(res) ==
  [res EXCEPT !.cacheControl = "max-age=0", !.cdnCacheControl = "s-maxage=ttl"]

setServerShortCdnCache(res) ==
  [res EXCEPT !.cacheControl = "max-age=0", !.cdnCacheControl = "s-maxage=60"]

\* The failure response gone wrong: the short CDN cache whatever the keys.
searchFailure_AlwaysShortCdn(keys) ==
  setServerShortCdnCache(json(503, "all_attempts_failed", "none"))

\* The response of /api/search when the walk ends with nothing selected.
searchFailure(keys) ==
  LET res == json(503, "all_attempts_failed", "none")
  IN IF ~hasAnyUserProviderKey(keys) THEN setServerShortCdnCache(res) ELSE setNoStore(res)

\* The meta gone wrong: the provider and key source reported are those of
\* the first attempt tried.
searchMeta_FirstTried(sel, trace) ==
  LET deduped == dedupByCanonicalUrl(sel.results)
  IN [provider |-> trace[1].provider,
      providers_tried |-> [i \in 1..Len(trace) |-> trace[i].provider],
      provider_key_source |-> trace[1].key_source,
      provider_route_reason |-> sel.attempt.reason,
      exact_country_applied |-> sel.attempt.exactCountryApplied,
      applied_country_param |-> sel.attempt.countryParam,
      fetched_with |-> IF trace[1].key_source = "user" THEN "user_key" ELSE "server_key",
      deduped |-> Len(sel.results) - Len(deduped),
      returned |-> Len(deduped)]

\* meta of the 200 body of /api/search: the fields of selected.attempt, the
\* providers of the trace, and the counts around dedupByCanonicalUrl.
searchMeta(sel, trace) ==
  LET deduped == dedupByCanonicalUrl(sel.results)
  IN [provider |-> sel.attempt.provider,
      providers_tried |-> [i \in 1..Len(trace) |-> trace[i].provider],
      provider_key_source |-> sel.attempt.keySource,
      provider_route_reason |-> sel.attempt.reason,
      exact_country_applied |-> sel.attempt.exactCountryApplied,
      applied_country_param |-> sel.attempt.countryParam,
      fetched_with |-> IF sel.attempt.keySource = "user" THEN "user_key" ELSE "server_key",
      deduped |-> Len(sel.results) - Len(deduped),
      returned |-> Len(deduped)]

\* The 200 response gone wrong: the CDN cache whatever the keys.
searchSuccess_AlwaysCdn(keys, sel, trace) ==
  setServerCdnCache([json(200, "none", "vercel-cdn") EXCEPT !.meta = searchMeta(sel, trace)])

\* The 200 response of /api/search for the selected attempt and its results.
searchSuccess(keys, sel, trace) ==
  LET hasAnyUserKey == hasAnyUserProviderKey(keys)
      body == [json(200, "none", IF hasAnyUserKey THEN "no-store" ELSE "vercel-cdn") EXCEPT
                 !.meta = searchMeta(sel, trace)]
  IN IF hasAnyUserKey THEN setNoStore(body) ELSE setServerCdnCache(body)

\* fetchJsonWithTimeout on a fetch that ends as outcome o: the catch branch
\* gives status 0; otherwise ok is res.ok and data the parsed body, null
\* when the body is empty or does not parse.
fetchJsonWithTimeout(o) ==
  IF o.threw
  THEN [ok |-> FALSE, status |-> 0, data |-> null]
  ELSE [ok |-> o.httpStatus >= 200 /\ o.httpStatus <= 299,
        status |-> o.httpStatus,
        data |-> IF o.body = "json" THEN "parsed" ELSE null]

\* The rows of the JSON body a provider answers with: two results whose URLs
\* have one canonical form, a row without a URL, and a third result.
UpstreamRows ==
  << [title |-> "t1", url |-> UrlString(FALSE, "https", "example.com", "/a", <<[k |-> "utm_source", v |-> "1"]>>, "")],
     [title |-> "t2", url |-> UrlString(FALSE, "https", "EXAMPLE.com", "/a", <<>>, "")],
     [title |-> "t3", url |-> EmptyString],
     [title |-> "t4", url |-> UrlString(FALSE, "https", "example.com", "/b", <<>>, "")] >>

\* Boolean(r.url): the row has a non-empty url.
hasUrl(row) == row.url # EmptyString

\* parseBraveResults / parseGoogleLikeResults: the rows of the parsed body
\* that have a url, none when data is null.
parseResults(data) == IF data = null THEN <<>> ELSE SelectSeq(UpstreamRows, hasUrl)

\* executeProviderAttempt with its one fetch ending as outcome o.
executeProviderAttempt(attempt, o) ==
  LET upstream == fetchJsonWithTimeout(o)
  IN [ok |-> upstream.ok,
      provider |-> attempt.provider,
      status |-> upstream.status,
      results |-> IF upstream.ok THEN parseResults(upstream.data) ELSE <<>>]

\* The call issued last by request r has ended as outcome o.
settle(r, o) ==
  outbound' = [outbound EXCEPT ![r][Len(outbound[r])].outcome = o.kind]

\* The keys object both routes build: trimmed user headers (BYO enabled,
\* the default) and trimmed server environment keys.
requestKeys(userHeaders) ==
  [user |-> [p \in ProviderId |-> trim(userHeaders[p])],
   server |-> [p \in ProviderId |-> trim(serverKeys[p])]]

traceEntry(attempt, status, reason) ==
  [provider |-> attempt.provider,
   status |-> status,
   key_source |-> attempt.keySource,
   reason |-> reason,
   exact_country_applied |-> attempt.exactCountryApplied]

\* The gate gone wrong: the budget is consulted whatever the key source.
budgetGate_AnyKeySource(attempt, state, today, budget) ==
  LET c == consumeServerMissBudget(state, today, budget)
  IN [execute |-> c.allowed, consumed |-> c.allowed, state |-> c.state]

\* The budget gate at the head of the loop body: the daily budget is
\* consulted for server-key attempts only.
budgetGate(attempt, state, today, budget) ==
  IF attempt.keySource = "server"
  THEN LET c == consumeServerMissBudget(state, today, budget)
       IN [execute |-> c.allowed, consumed |-> c.allowed, state |-> c.state]
  ELSE [execute |-> TRUE, consumed |-> FALSE, state |-> state]

\* The loop moves to plan entry i + 1; past the end of the plan the request
\* ends with the failure response.
continueWalk(r, failure) ==
  /\ idx' = [idx EXCEPT ![r] = @ + 1]
  /\ IF idx[r] < Len(attempts[r])
     THEN pc' = [pc EXCEPT ![r] = "walk"] /\ response' = response
     ELSE /\ pc' = [pc EXCEPT ![r] = "done"]
          /\ response' = [response EXCEPT ![r] = failure]

\* GET gone wrong: the query is validated before the rate limit is
\* consulted, so a request without a query leaves no timestamp.
SearchArrive_ValidateFirst(r, inputs) ==
  /\ pc[r] = "new"
  /\ \E in \in inputs :
       LET normalizedQ == normalizeQuery(in.qRaw)
           limited == IF normalizedQ = ""
                      THEN [allowed |-> TRUE, retryAfterSeconds |-> 0, buckets |-> buckets]
                      ELSE rateLimit(buckets, in.ip, nowMs)
           countryHint == parseCountryHint(in.rawCountry)
           keys == requestKeys(in.hdr)
           built == buildProviderAttempts(countryHint, keys)
           reject(status, error) ==
             /\ pc' = [pc EXCEPT ![r] = "done"]
             /\ response' = [response EXCEPT ![r] = setNoStore(json(status, error, "none"))]
             /\ UNCHANGED attempts
           key == IF in.ip = "" THEN "unknown" ELSE in.ip
           turnedAway == limited.allowed /\ (normalizedQ = "" \/ ~hasAnyProviderKey(keys) \/ Len(built) = 0)
       IN /\ buckets' = limited.buckets
          /\ rejectedAt' = IF turnedAway
                           THEN (key :> Append(bucketOf(rejectedAt, key), nowMs)) @@ rejectedAt
                           ELSE rejectedAt
          /\ req' = [req EXCEPT ![r] =
                       [route |-> "search", ip |-> in.ip, q |-> normalizedQ, rawCountry |-> in.rawCountry,
                        countryHint |-> countryHint, keys |-> keys]]
          /\ IF ~limited.allowed THEN reject(429, "rate_limited")
             ELSE IF normalizedQ = "" THEN reject(400, "missing_query")
             ELSE IF ~hasAnyProviderKey(keys) THEN reject(503, "no_key")
             ELSE IF Len(built) = 0 THEN reject(503, "no_route")
             ELSE /\ pc' = [pc EXCEPT ![r] = "walk"]
                  /\ attempts' = [attempts EXCEPT ![r] = built]
                  /\ UNCHANGED response
  /\ UNCHANGED <<nowMs, serverKeyDailyMissState, serverKeys, dailyMissBudget, idx, attemptTrace, selected, outbound, admitted, rl, planVars, libVars>>

\* GET up to the loop: rate limit, query validation, keys, plan.
SearchArrive(r, inputs) ==
  /\ pc[r] = "new"
  /\ \E in \in inputs :
       LET limited == rateLimit(buckets, in.ip, nowMs)
           normalizedQ == normalizeQuery(in.qRaw)
           countryHint == parseCountryHint(in.rawCountry)
           keys == requestKeys(in.hdr)
           built == buildProviderAttempts(countryHint, keys)
           reject(status, error) ==
             /\ pc' = [pc EXCEPT ![r] = "done"]
             /\ response' = [response EXCEPT ![r] = setNoStore(json(status, error, "none"))]
             /\ UNCHANGED attempts
           key == IF in.ip = "" THEN "unknown" ELSE in.ip
           turnedAway == limited.allowed /\ (normalizedQ = "" \/ ~hasAnyProviderKey(keys) \/ Len(built) = 0)
       IN /\ buckets' = limited.buckets
          /\ rejectedAt' = IF turnedAway
                           THEN (key :> Append(bucketOf(rejectedAt, key), nowMs)) @@ rejectedAt
                           ELSE rejectedAt
          /\ req' = [req EXCEPT ![r] =
                       [route |-> "search", ip |-> in.ip, q |-> normalizedQ, rawCountry |-> in.rawCountry,
                        countryHint |-> countryHint, keys |-> keys]]
          /\ IF ~limited.allowed THEN reject(429, "rate_limited")
             ELSE IF normalizedQ = "" THEN reject(400, "missing_query")
             ELSE IF ~hasAnyProviderKey(keys) THEN reject(503, "no_key")
             ELSE IF Len(built) = 0 THEN reject(503, "no_route")
             ELSE /\ pc' = [pc EXCEPT ![r] = "walk"]
                  /\ attempts' = [attempts EXCEPT ![r] = built]
                  /\ UNCHANGED response
  /\ UNCHANGED <<nowMs, serverKeyDailyMissState, serverKeys, dailyMissBudget, idx, attemptTrace, selected, outbound, admitted, rl, planVars, libVars>>

\* The refusal gone wrong: the request answers 503 at once instead of
\* continuing with the next plan entry.
SearchSkip_Return(r) ==
  /\ pc[r] = "walk" /\ req[r].route = "search"
  /\ LET attempt == attempts[r][idx[r]]
         gate == budgetGate(attempt, serverKeyDailyMissState, todayUtc(nowMs), dailyMissBudget)
     IN /\ ~gate.execute
        /\ serverKeyDailyMissState' = gate.state
        /\ attemptTrace' = [attemptTrace EXCEPT ![r] =
             Append(@, traceEntry(attempt, 503, "daily_miss_budget_exceeded"))]
        /\ pc' = [pc EXCEPT ![r] = "done"]
        /\ response' = [response EXCEPT ![r] = searchFailure(req[r].keys)]
  /\ UNCHANGED <<nowMs, buckets, serverKeys, dailyMissBudget, req, attempts, idx, selected, outbound, admitted, rejectedAt, rl, planVars, libVars>>

\* The refusal gone wrong: the loop continues without a trace entry.
SearchSkip_NoTrace(r) ==
  /\ pc[r] = "walk" /\ req[r].route = "search"
  /\ LET attempt == attempts[r][idx[r]]
         gate == budgetGate(attempt, serverKeyDailyMissState, todayUtc(nowMs), dailyMissBudget)
     IN /\ ~gate.execute
        /\ serverKeyDailyMissState' = gate.state
        /\ continueWalk(r, searchFailure(req[r].keys))
  /\ UNCHANGED <<nowMs, buckets, serverKeys, dailyMissBudget, req, attempts, attemptTrace, selected, outbound, admitted, rejectedAt, rl, planVars, libVars>>

\* The refusal gone wrong: the loop does not move on from the refused entry.
SearchSkip_Stuck(r) ==
  /\ pc[r] = "walk" /\ req[r].route = "search"
  /\ LET attempt == attempts[r][idx[r]]
         gate == budgetGate(attempt, serverKeyDailyMissState, todayUtc(nowMs), dailyMissBudget)
     IN /\ ~gate.execute
        /\ serverKeyDailyMissState' = gate.state
  /\ UNCHANGED <<nowMs, buckets, serverKeys, dailyMissBudget, pc, req, attempts, idx, attemptTrace, selected, response, outbound, admitted, rejectedAt, rl, planVars, libVars>>

\* A loop iteration whose server-key attempt is refused by the budget:
\* trace entry, no call, continue.
SearchSkip(r) ==
  /\ pc[r] = "walk" /\ req[r].route = "search"
  /\ LET attempt == attempts[r][idx[r]]
         gate == budgetGate(attempt, serverKeyDailyMissState, todayUtc(nowMs), dailyMissBudget)
     IN /\ ~gate.execute
        /\ serverKeyDailyMissState' = gate.state
        /\ attemptTrace' = [attemptTrace EXCEPT ![r] =
             Append(@, traceEntry(attempt, 503, "daily_miss_budget_exceeded"))]
        /\ continueWalk(r, searchFailure(req[r].keys))
  /\ UNCHANGED <<nowMs, buckets, serverKeys, dailyMissBudget, req, attempts, selected, outbound, admitted, rejectedAt, rl, planVars, libVars>>

\* The loop gone wrong: the call is not awaited, the loop goes on to the
\* next plan entry while it is in flight.
SearchCall_NoAwait(r) ==
  /\ pc[r] = "walk" /\ req[r].route = "search"
  /\ LET attempt == attempts[r][idx[r]]
         today == todayUtc(nowMs)
         gate == budgetGate(attempt, serverKeyDailyMissState, today, dailyMissBudget)
     IN /\ gate.execute
        /\ serverKeyDailyMissState' = gate.state
        /\ outbound' = [outbound EXCEPT ![r] =
             Append(@, [i |-> idx[r], keySource |-> attempt.keySource, consumed |-> gate.consumed, outcome |-> "pending"])]
        /\ admitted' = IF gate.consumed
                       THEN [admitted EXCEPT ![today] = @ + 1]
                       ELSE admitted
  /\ IF idx[r] < Len(attempts[r])
     THEN pc' = pc /\ idx' = [idx EXCEPT ![r] = @ + 1]
     ELSE pc' = [pc EXCEPT ![r] = "await"] /\ idx' = idx
  /\ UNCHANGED <<nowMs, buckets, serverKeys, dailyMissBudget, req, attempts, attemptTrace, selected, response, rejectedAt, rl, planVars, libVars>>

\* A loop iteration that passes the gate: executeProviderAttempt issues its
\* one fetch and the request waits for it.
SearchCall(r) ==
  /\ pc[r] = "walk" /\ req[r].route = "search"
  /\ LET attempt == attempts[r][idx[r]]
         today == todayUtc(nowMs)
         gate == budgetGate(attempt, serverKeyDailyMissState, today, dailyMissBudget)
     IN /\ gate.execute
        /\ serverKeyDailyMissState' = gate.state
        /\ outbound' = [outbound EXCEPT ![r] =
             Append(@, [i |-> idx[r], keySource |-> attempt.keySource, consumed |-> gate.consumed, outcome |-> "pending"])]
        /\ admitted' = IF gate.consumed
                       THEN [admitted EXCEPT ![today] = @ + 1]
                       ELSE admitted
  /\ pc' = [pc EXCEPT ![r] = "await"]
  /\ UNCHANGED <<nowMs, buckets, serverKeys, dailyMissBudget, req, attempts, idx, attemptTrace, selected, response, rejectedAt, rl, planVars, libVars>>

\* The loop gone wrong: no break after a success, the walk goes on.
SearchReturn_NoBreak(r, upstreams) ==
  /\ pc[r] = "await" /\ req[r].route = "search"
  /\ \E o \in upstreams :
       LET attempt == attempts[r][idx[r]]
           upstream == executeProviderAttempt(attempt, o)
       IN
       /\ settle(r, o)
       /\ attemptTrace' = [attemptTrace EXCEPT ![r] =
            Append(@, traceEntry(attempt, upstream.status, attempt.reason))]
       /\ selected' = IF upstream.ok THEN [selected EXCEPT ![r] = idx[r]] ELSE selected
       /\ idx' = [idx EXCEPT ![r] = @ + 1]
       /\ IF idx[r] < Len(attempts[r])
          THEN pc' = [pc EXCEPT ![r] = "walk"] /\ response' = response
          ELSE /\ pc' = [pc EXCEPT ![r] = "done"]
               /\ response' = [response EXCEPT ![r] =
                    IF selected'[r] # 0 THEN searchSuccess(req[r].keys, [attempt |-> attempts[r][selected'[r]], results |-> upstream.results], attemptTrace'[r])
                    ELSE searchFailure(req[r].keys)]
  /\ UNCHANGED <<nowMs, buckets, serverKeyDailyMissState, serverKeys, dailyMissBudget, req, attempts, admitted, rejectedAt, rl, planVars, libVars>>

\* The attempt gone wrong: a call that timed out is issued once more for
\* the same plan entry.
SearchReturn_RetryOnTimeout(r, upstreams) ==
  /\ pc[r] = "await" /\ req[r].route = "search"
  /\ \E o \in upstreams :
       LET attempt == attempts[r][idx[r]]
           upstream == executeProviderAttempt(attempt, o)
           tried == Cardinality({k \in 1..Len(outbound[r]) : outbound[r][k].i = idx[r]})
       IN
       IF o.kind = "timeout" /\ tried < 2
       THEN /\ outbound' = [outbound EXCEPT ![r] =
                 Append([@ EXCEPT ![Len(@)].outcome = o.kind],
                        [i |-> idx[r], keySource |-> attempt.keySource, consumed |-> FALSE, outcome |-> "pending"])]
            /\ UNCHANGED <<pc, idx, attemptTrace, selected, response>>
       ELSE /\ settle(r, o)
            /\ attemptTrace' = [attemptTrace EXCEPT ![r] =
                 Append(@, traceEntry(attempt, upstream.status, attempt.reason))]
            /\ IF upstream.ok
               THEN /\ selected' = [selected EXCEPT ![r] = idx[r]]
                    /\ pc' = [pc EXCEPT ![r] = "done"]
                    /\ response' = [response EXCEPT ![r] = searchSuccess(req[r].keys, [attempt |-> attempt, results |-> upstream.results], attemptTrace'[r])]
                    /\ UNCHANGED idx
               ELSE /\ continueWalk(r, searchFailure(req[r].keys))
                    /\ UNCHANGED selected
  /\ UNCHANGED <<nowMs, buckets, serverKeyDailyMissState, serverKeys, dailyMissBudget, req, attempts, admitted, rejectedAt, rl, planVars, libVars>>

\* The failure gone wrong: the unit a server attempt consumed is given back
\* when its call fails.
SearchReturn_Refund(r, upstreams) ==
  /\ pc[r] = "await" /\ req[r].route = "search"
  /\ \E o \in upstreams :
       LET attempt == attempts[r][idx[r]]
           upstream == executeProviderAttempt(attempt, o)
           call == outbound[r][Len(outbound[r])]
       IN
       /\ settle(r, o)
       /\ attemptTrace' = [attemptTrace EXCEPT ![r] =
            Append(@, traceEntry(attempt, upstream.status, attempt.reason))]
       /\ serverKeyDailyMissState' =
            IF ~upstream.ok /\ call.consumed /\ serverKeyDailyMissState.misses > 0
            THEN [serverKeyDailyMissState EXCEPT !.misses = @ - 1]
            ELSE serverKeyDailyMissState
       /\ IF upstream.ok
          THEN /\ selected' = [selected EXCEPT ![r] = idx[r]]
               /\ pc' = [pc EXCEPT ![r] = "done"]
               /\ response' = [response EXCEPT ![r] = searchSuccess(req[r].keys, [attempt |-> attempt, results |-> upstream.results], attemptTrace'[r])]
               /\ UNCHANGED idx
          ELSE /\ continueWalk(r, searchFailure(req[r].keys))
               /\ UNCHANGED selected
  /\ UNCHANGED <<nowMs, buckets, serverKeys, dailyMissBudget, req, attempts, admitted, rejectedAt, rl, planVars, libVars>>

\* The awaited call settles: trace entry, then break on success or
\* continue on failure.
SearchReturn(r, upstreams) ==
  /\ pc[r] = "await" /\ req[r].route = "search"
  /\ \E o \in upstreams :
       LET attempt == attempts[r][idx[r]]
           upstream == executeProviderAttempt(attempt, o)
       IN
       /\ settle(r, o)
       /\ attemptTrace' = [attemptTrace EXCEPT ![r] =
            Append(@, traceEntry(attempt, upstream.status, attempt.reason))]
       /\ IF upstream.ok
          THEN /\ selected' = [selected EXCEPT ![r] = idx[r]]
               /\ pc' = [pc EXCEPT ![r] = "done"]
               /\ response' = [response EXCEPT ![r] = searchSuccess(req[r].keys, [attempt |-> attempt, results |-> upstream.results], attemptTrace'[r])]
               /\ UNCHANGED idx
          ELSE /\ continueWalk(r, searchFailure(req[r].keys))
               /\ UNCHANGED selected
  /\ UNCHANGED <<nowMs, buckets, serverKeyDailyMissState, serverKeys, dailyMissBudget, req, attempts, admitted, rejectedAt, rl, planVars, libVars>>

(***************************************************************************)
(* /api/compare-country                                                    *)
(***************************************************************************)

\* The failure response of the probe: 503 when some provider supports the
\* country exactly, 200 "unsupported" otherwise.
probeFailure(country) ==
  IF hasAnyExactCountrySupport(country)
  THEN setNoStore(json(503, "upstream_error", "none"))
  ELSE setNoStore(json(200, "unsupported", "none"))

\* The 200 "ok" response of the probe: routing.selected_* are the fields of
\* selected.attempt, summary.returned the length of the deduplicated list.
\* The probe reports neither a country parameter nor a dedup count.
probeSuccess(sel, trace) ==
  LET deduped == dedupByCanonicalUrl(sel.mapped)
  IN setNoStore([json(200, "none", "none") EXCEPT
       !.meta = [NoMeta EXCEPT
                   !.provider = sel.attempt.provider,
                   !.providers_tried = [i \in 1..Len(trace) |-> trace[i].provider],
                   !.provider_key_source = sel.attempt.keySource,
                   !.provider_route_reason = sel.attempt.reason,
                   !.exact_country_applied = sel.attempt.exactCountryApplied,
                   !.returned = Len(deduped)]])

\* GET up to the loop: query and country validation, keys, plan.
CompareArrive(r, inputs) ==
  /\ pc[r] = "new"
  /\ \E in \in inputs :
       LET normalizedQ == normalizeQuery(in.qRaw)
           country == parseCountryHint(in.rawCountry)
           keys == requestKeys(in.hdr)
           built == buildProviderAttempts(country, keys)
           reject(resp) ==
             /\ pc' = [pc EXCEPT ![r] = "done"]
             /\ response' = [response EXCEPT ![r] = resp]
             /\ UNCHANGED attempts
       IN /\ req' = [req EXCEPT ![r] =
                       [route |-> "compare", ip |-> in.ip, q |-> normalizedQ, rawCountry |-> in.rawCountry,
                        countryHint |-> country, keys |-> keys]]
          /\ IF normalizedQ = "" THEN reject(setNoStore(json(400, "missing_query", "none")))
             ELSE IF country = null THEN reject(setNoStore(json(400, "invalid_country", "none")))
             ELSE IF ~hasAnyProviderKey(keys) THEN reject(setNoStore(json(503, "no_key", "none")))
             ELSE IF Len(built) = 0 THEN reject(probeFailure(country))
             ELSE /\ pc' = [pc EXCEPT ![r] = "walk"]
                  /\ attempts' = [attempts EXCEPT ![r] = built]
                  /\ UNCHANGED response
  /\ UNCHANGED <<nowMs, buckets, serverKeyDailyMissState, serverKeys, dailyMissBudget, idx, attemptTrace, selected, outbound, admitted, rejectedAt, rl, planVars, libVars>>

\* A loop iteration: executeProviderAttempt is called for the next plan
\* entry, whatever its key source.
CompareCall(r) ==
  /\ pc[r] = "walk" /\ req[r].route = "compare"
  /\ outbound' = [outbound EXCEPT ![r] =
       Append(@, [i |-> idx[r], keySource |-> attempts[r][idx[r]].keySource, consumed |-> FALSE, outcome |-> "pending"])]
  /\ pc' = [pc EXCEPT ![r] = "await"]
  /\ UNCHANGED <<nowMs, buckets, serverKeyDailyMissState, serverKeys, dailyMissBudget, req, attempts, idx, attemptTrace, selected, response, admitted, rejectedAt, rl, planVars, libVars>>

\* The awaited call settles: routing.attempts entry, then break or continue.
CompareReturn(r, upstreams) ==
  /\ pc[r] = "await" /\ req[r].route = "compare"
  /\ \E o \in upstreams :
       LET attempt == attempts[r][idx[r]]
           upstream == executeProviderAttempt(attempt, o)
       IN
       /\ settle(r, o)
       /\ attemptTrace' = [attemptTrace EXCEPT ![r] =
            Append(@, traceEntry(attempt, upstream.status, attempt.reason))]
       /\ IF upstream.ok
          THEN /\ selected' = [selected EXCEPT ![r] = idx[r]]
               /\ pc' = [pc EXCEPT ![r] = "done"]
               /\ response' = [response EXCEPT ![r] = probeSuccess([attempt |-> attempt, mapped |-> upstream.results], attemptTrace'[r])]
               /\ UNCHANGED idx
          ELSE /\ continueWalk(r, probeFailure(req[r].countryHint))
               /\ UNCHANGED selected
  /\ UNCHANGED <<nowMs, buckets, serverKeyDailyMissState, serverKeys, dailyMissBudget, req, attempts, admitted, rejectedAt, rl, planVars, libVars>>

(***************************************************************************)
(* The routes under concurrent requests                                    *)
(***************************************************************************)

\* The wall clock moves on to a later UTC midnight.
TickDay ==
  /\ \E d \in Days : d * MS_PER_DAY > nowMs /\ nowMs' = d * MS_PER_DAY
  /\ UNCHANGED <<buckets, routeVars, rejectedAt, rl, planVars, libVars>>

NoRequest == [route |-> "none", ip |-> "", q |-> "", rawCountry |-> null, countryHint |-> null, keys |-> [user |-> NoKeys, server |-> NoKeys]]

NoCheck == [ip |-> "", nowMs |-> -1, allowed |-> TRUE, retryAfterSeconds |-> 0]

NoPlanIn == [rawCountry |-> null, countryHint |-> null, keys |-> [user |-> NoKeys, server |-> NoKeys], built |-> FALSE]

\* Neither canonicalizeUrl, dedupByCanonicalUrl nor computeRealityPanel called.
NoLibIn == [fn |-> "none", arg |-> <<>>, done |-> FALSE]

\* No request has been turned away yet.
NoRejections == [k \in {} |-> <<>>]

\* new Map(): no identity has a bucket yet.
NoBuckets == [k \in {} |-> <<>>]

\* The bucket of the catch-all identity after LIMIT admitted checks at the
\* current instant.
FullBucket == "unknown" :> [i \in 1..LIMIT |-> 0]

Init ==
  /\ nowMs = 0
  /\ buckets \in {NoBuckets, FullBucket}
  /\ serverKeyDailyMissState = [date |-> NoDate, misses |-> 0]
  /\ serverKeys \in ServerKeyChoices
  /\ dailyMissBudget \in 0..MaxDailyMissBudget
  /\ pc = [r \in Reqs |-> "new"]
  /\ req = [r \in Reqs |-> NoRequest]
  /\ attempts = [r \in Reqs |-> <<>>]
  /\ idx = [r \in Reqs |-> 1]
  /\ attemptTrace = [r \in Reqs |-> <<>>]
  /\ selected = [r \in Reqs |-> 0]
  /\ response = [r \in Reqs |-> NoResponse]
  /\ outbound = [r \in Reqs |-> <<>>]
  /\ admitted = [d \in Days |-> 0]
  /\ rejectedAt = NoRejections
  /\ rl = NoCheck
  /\ planIn = NoPlanIn
  /\ plan = <<>>
  /\ libIn = NoLibIn
  /\ libOut = <<>>

Next ==
  \/ \E r \in Reqs : SearchArrive(r, ConcurrentInputs)
  \/ \E r \in Reqs : SearchSkip(r)
  \/ \E r \in Reqs : SearchCall(r)
  \/ \E r \in Reqs : SearchReturn(r, OkOrTimeout)
  \/ \E r \in Reqs : CompareArrive(r, ConcurrentInputs)
  \/ \E r \in Reqs : CompareCall(r)
  \/ \E r \in Reqs : CompareReturn(r, OkOrTimeout)
  \/ TickDay

Spec == Init /\ [][Next]_vars

(***************************************************************************)
(* One request walked alone, over the wider inputs and upstream outcomes   *)
(***************************************************************************)

NextWalk ==
  \/ SearchArrive("r1", WalkInputs)
  \/ SearchSkip("r1")
  \/ SearchCall("r1")
  \/ SearchReturn("r1", Upstreams)
  \/ CompareArrive("r1", WalkInputs)
  \/ CompareCall("r1")
  \/ CompareReturn("r1", Upstreams)
  \/ TickDay

SpecWalk == Init /\ [][NextWalk]_vars

\* The fetch outcome the code itself brings about: the AbortController timer
\* of fetchJsonWithTimeout fires after 10 s.
Aborted == {o \in Upstreams : o.kind = "timeout"}

\* The same walk under the scheduling the runtime gives it: a loop iteration
\* that can run does run, and a call that was issued and has not settled
\* otherwise (fetch returned or threw) is aborted by the 10 s timer.  The
\* network is under no obligation to answer, and the clock under none to
\* reach another day.
FairWalk ==
  /\ WF_vars(SearchSkip("r1"))
  /\ WF_vars(SearchCall("r1"))
  /\ WF_vars(SearchReturn("r1", Aborted))
  /\ WF_vars(CompareCall("r1"))
  /\ WF_vars(CompareReturn("r1", Aborted))

\* The walk is followed to its end from an empty rate limiter and the two
\* budgets that refuse every server entry or all but the first.
InitLive == Init /\ buckets = NoBuckets /\ dailyMissBudget \in {0, 1}

SpecWalkLive == InitLive /\ [][NextWalk]_vars /\ FairWalk
(***************************************************************************)
(* The rate limiter on its own, under a millisecond clock                  *)
(***************************************************************************)

\* Instants at which the clock is observed: a start, the millisecond after
\* it, and the same two one window later.
RlClock == {0, 1, WINDOW_MS, WINDOW_MS + 1}

\* Client identities: two spellings of the catch-all and one address.
RlIps == {"", "unknown", "10.0.0.1"}

TickMs ==
  /\ \E t \in RlClock : t > nowMs /\ nowMs' = t
  /\ UNCHANGED <<buckets, routeVars, rl, planVars, libVars>>

\* One call rateLimit(ip) at the current instant.
RlCheck(ip) ==
  /\ ip = "10.0.0.1" => Len(bucketOf(buckets, ip)) < MaxOtherChecks
  /\ LET res == rateLimit(buckets, ip, nowMs)
     IN /\ buckets' = res.buckets
        /\ rl' = [ip |-> ip, nowMs |-> nowMs, allowed |-> res.allowed,
                  retryAfterSeconds |-> res.retryAfterSeconds]
  /\ UNCHANGED <<nowMs, routeVars, planVars, libVars>>

InitRL ==
  /\ nowMs = 0
  /\ buckets = NoBuckets
  /\ rl = NoCheck
  /\ serverKeyDailyMissState = [date |-> NoDate, misses |-> 0]
  /\ serverKeys = NoKeys
  /\ dailyMissBudget = 0
  /\ pc = [r \in Reqs |-> "new"]
  /\ req = [r \in Reqs |-> NoRequest]
  /\ attempts = [r \in Reqs |-> <<>>]
  /\ idx = [r \in Reqs |-> 1]
  /\ attemptTrace = [r \in Reqs |-> <<>>]
  /\ selected = [r \in Reqs |-> 0]
  /\ response = [r \in Reqs |-> NoResponse]
  /\ outbound = [r \in Reqs |-> <<>>]
  /\ admitted = [d \in Days |-> 0]
  /\ rejectedAt = NoRejections
  /\ planIn = NoPlanIn
  /\ plan = <<>>
  /\ libIn = NoLibIn
  /\ libOut = <<>>

NextRL ==
  \/ \E ip \in RlIps : RlCheck(ip)
  \/ TickMs

SpecRL == InitRL /\ [][NextRL]_vars

(***************************************************************************)
(* The planner on its own, over every country and credential pattern       *)
(***************************************************************************)

\* Credentials given to the planner: per provider an absent, blank or
\* padded user key and an absent or present server key.
PlanKeyChoices ==
  [user : [ProviderId -> {"", "  ", " uk "}], server : [ProviderId -> {"", "sk"}]]

\* The raw country parameters given to parseCountryHint: absent, empty,
\* every ISO code in lower case, a code as it is stored, mixed case, an
\* unknown code and a three-letter code.
RawCountries ==
  {null, "", "FR", "Fr", "zz", "fra"} \cup {toLowerCase[c] : c \in DOMAIN toLowerCase}

\* What both routes do with the country parameter: parse it, then plan.
BuildPlan ==
  /\ ~planIn.built
  /\ LET countryHint == parseCountryHint(planIn.rawCountry)
     IN /\ plan' = buildProviderAttempts(countryHint, planIn.keys)
        /\ planIn' = [planIn EXCEPT !.countryHint = countryHint, !.built = TRUE]
  /\ UNCHANGED <<nowMs, buckets, routeVars, rl, libVars>>

InitPlan ==
  /\ planIn \in [rawCountry : RawCountries, countryHint : {null}, keys : PlanKeyChoices, built : {FALSE}]
  /\ plan = <<>>
  /\ libIn = NoLibIn
  /\ libOut = <<>>
  /\ nowMs = 0
  /\ buckets = NoBuckets
  /\ rl = NoCheck
  /\ serverKeyDailyMissState = [date |-> NoDate, misses |-> 0]
  /\ serverKeys = NoKeys
  /\ dailyMissBudget = 0
  /\ pc = [r \in Reqs |-> "new"]
  /\ req = [r \in Reqs |-> NoRequest]
  /\ attempts = [r \in Reqs |-> <<>>]
  /\ idx = [r \in Reqs |-> 1]
  /\ attemptTrace = [r \in Reqs |-> <<>>]
  /\ selected = [r \in Reqs |-> 0]
  /\ response = [r \in Reqs |-> NoResponse]
  /\ outbound = [r \in Reqs |-> <<>>]
  /\ admitted = [d \in Days |-> 0]
  /\ rejectedAt = NoRejections

NextPlan == BuildPlan

SpecPlan == InitPlan /\ [][NextPlan]_vars


(***************************************************************************)
(* /api/search serving one client's requests one after the other          *)
(***************************************************************************)

\* The requests of the client: with and without a query, with and without
\* a key of its own, all from the catch-all identity.
FloodInputs ==
  [ip : {""}, qRaw : {"", " Hello "}, rawCountry : {null}, hdr : {NoKeys, [NoKeys EXCEPT !["brave"] = " uk "]}]

\* The instants of the flood: the start and the last instant at which a
\* timestamp of the start still counts (cutoff = now - WINDOW_MS = 0).
FloodClock == {0, WINDOW_MS}

TickFlood ==
  /\ \E t \in FloodClock : t > nowMs /\ nowMs' = t
  /\ UNCHANGED <<buckets, routeVars, rl, planVars, libVars>>

\* GET is invoked for the next request: its locals are fresh, the module
\* state (buckets, serverKeyDailyMissState) is what the earlier requests left.
SearchNext(r) ==
  /\ pc[r] = "done"
  /\ pc' = [pc EXCEPT ![r] = "new"]
  /\ req' = [req EXCEPT ![r] = NoRequest]
  /\ attempts' = [attempts EXCEPT ![r] = <<>>]
  /\ idx' = [idx EXCEPT ![r] = 1]
  /\ attemptTrace' = [attemptTrace EXCEPT ![r] = <<>>]
  /\ selected' = [selected EXCEPT ![r] = 0]
  /\ response' = [response EXCEPT ![r] = NoResponse]
  /\ outbound' = [outbound EXCEPT ![r] = <<>>]
  /\ UNCHANGED <<nowMs, buckets, serverKeyDailyMissState, serverKeys, dailyMissBudget, admitted, rejectedAt, rl, planVars, libVars>>

\* A process without server keys and an empty rate limiter.
InitFlood == Init /\ buckets = NoBuckets /\ serverKeys = NoKeys /\ dailyMissBudget = 0

NextFlood ==
  \/ SearchArrive("r1", FloodInputs)
  \/ SearchCall("r1")
  \/ SearchReturn("r1", OkOrTimeout)
  \/ SearchNext("r1")
  \/ TickFlood

SpecFlood == InitFlood /\ [][NextFlood]_vars
(***************************************************************************)
(* Result post-processing on its own: one call of canonicalizeUrl,         *)
(* dedupByCanonicalUrl or computeRealityPanel on an argument drawn from a  *)
(* bounded set                                                             *)
(***************************************************************************)

\* Longest query string and longest result list fed in.
MaxParams == 3

MaxResults == 3

\* The sequences over S of length at most n.
SeqUpTo(S, n) == UNION {[1..m -> S] : m \in 0..n}

\* Query parameters as they are written in a URL: plain and tracking names
\* in either case, a percent-encoded name, plain and percent-encoded values.
ParamKeys == {"a", "B", "utm_source", "Gclid", "%75tm_medium"}

ParamValues == {"1", "x%20y"}

\* The arguments of canonicalizeUrl: empty and blank strings, text that is
\* no URL, and URLs of a special and a non-special scheme.
CanonInputs ==
  {EmptyString, [EmptyString EXCEPT !.pad = TRUE], TextString(FALSE, "not a url"), TextString(TRUE, "not a url")}
  \cup {UrlString(pad, scheme, host, "/path", query, hash) :
          pad \in BOOLEAN, scheme \in {"https", "git"}, host \in {"Example.com", "example.com"},
          query \in SeqUpTo([k : ParamKeys, v : ParamValues], MaxParams), hash \in {"", "section"}}

\* The URLs of the results fed to dedupByCanonicalUrl: three URLs of which
\* two have one canonical form, the empty and a blank string, and text that
\* is no URL with and without surrounding blanks.
DedupUrls ==
  {UrlString(FALSE, "https", "example.com", "/a", <<[k |-> "utm_source", v |-> "1"]>>, ""),
   UrlString(FALSE, "https", "EXAMPLE.com", "/a", <<>>, ""),
   UrlString(FALSE, "https", "example.com", "/b", <<>>, ""),
   EmptyString, [EmptyString EXCEPT !.pad = TRUE],
   TextString(FALSE, "not a url"), TextString(TRUE, "not a url")}

\* The i-th result of a list carries the i-th title.
TITLES == <<"t1", "t2", "t3", "t4", "t5", "t6">>

DedupInputs ==
  {[i \in 1..Len(urls) |-> [title |-> TITLES[i], url |-> urls[i]]] : urls \in SeqUpTo(DedupUrls, MaxResults)}

\* The annotated results fed to computeRealityPanel.
PanelResults ==
  {[domain |-> "a.com", tld |-> "com", country_inferred |-> "unknown", lang_detected |-> "en"],
   [domain |-> "b.us", tld |-> "us", country_inferred |-> "US", lang_detected |-> "en"],
   [domain |-> "c.fr", tld |-> "fr", country_inferred |-> "FR", lang_detected |-> "fr"],
   [domain |-> "b.us", tld |-> "us", country_inferred |-> "US", lang_detected |-> "unknown"],
   [domain |-> "", tld |-> "", country_inferred |-> "", lang_detected |-> ""]}

PanelInputs == SeqUpTo(PanelResults, MaxResults)

LibCall(fn, args) == {[fn |-> fn, arg |-> a, done |-> FALSE] : a \in args}

Canonicalize ==
  /\ libIn.fn = "canonicalizeUrl" /\ ~libIn.done
  /\ libOut' = canonicalizeUrl(libIn.arg)
  /\ libIn' = [libIn EXCEPT !.done = TRUE]
  /\ UNCHANGED <<nowMs, buckets, routeVars, rl, planVars>>

Dedup ==
  /\ libIn.fn = "dedupByCanonicalUrl" /\ ~libIn.done
  /\ libOut' = dedupByCanonicalUrl(libIn.arg)
  /\ libIn' = [libIn EXCEPT !.done = TRUE]
  /\ UNCHANGED <<nowMs, buckets, routeVars, rl, planVars>>

Panel ==
  /\ libIn.fn = "computeRealityPanel" /\ ~libIn.done
  /\ libOut' = computeRealityPanel(libIn.arg)
  /\ libIn' = [libIn EXCEPT !.done = TRUE]
  /\ UNCHANGED <<nowMs, buckets, routeVars, rl, planVars>>

InitLib ==
  /\ libIn \in LibCall("canonicalizeUrl", CanonInputs) \cup LibCall("dedupByCanonicalUrl", DedupInputs)
                 \cup LibCall("computeRealityPanel", PanelInputs)
  /\ libOut = <<>>
  /\ planIn = NoPlanIn
  /\ plan = <<>>
  /\ nowMs = 0
  /\ buckets = NoBuckets
  /\ rl = NoCheck
  /\ serverKeyDailyMissState = [date |-> NoDate, misses |-> 0]
  /\ serverKeys = NoKeys
  /\ dailyMissBudget = 0
  /\ pc = [r \in Reqs |-> "new"]
  /\ req = [r \in Reqs |-> NoRequest]
  /\ attempts = [r \in Reqs |-> <<>>]
  /\ idx = [r \in Reqs |-> 1]
  /\ attemptTrace = [r \in Reqs |-> <<>>]
  /\ selected = [r \in Reqs |-> 0]
  /\ response = [r \in Reqs |-> NoResponse]
  /\ outbound = [r \in Reqs |-> <<>>]
  /\ admitted = [d \in Days |-> 0]
  /\ rejectedAt = NoRejections

NextLib == Canonicalize \/ Dedup \/ Panel

SpecLib == InitLib /\ [][NextLib]_vars
(***************************************************************************)
(* Properties                                                              *)
(***************************************************************************)

\* A trace entry of a call that succeeded (upstream.ok: a 2xx status).
isSuccess(entry) == entry.status >= 200 /\ entry.status <= 299

isSkipped(entry) == entry.reason = "daily_miss_budget_exceeded"

\* The step from the current state to the next one is a step of request r.
StepOf(r) ==
  \/ pc'[r] # pc[r]
  \/ idx'[r] # idx[r]
  \/ attemptTrace'[r] # attemptTrace[r]
  \/ outbound'[r] # outbound[r]

\* The budget would refuse a server attempt made now (after the reset a
\* new UTC date brings).
budgetExhausted ==
  LET misses == IF serverKeyDailyMissState.date # todayUtc(nowMs)
                THEN 0 ELSE serverKeyDailyMissState.misses
  IN misses >= dailyMissBudget

\* C1: once an attempt of a walk has succeeded, nothing follows it: the
\* successful entry is the last entry of the trace, it belongs to the last
\* call issued, the winner is that plan entry and the request is over.
C1_NoAttemptAfterSuccess ==
  \A r \in Reqs : \A i \in 1..Len(attemptTrace[r]) :
    isSuccess(attemptTrace[r][i]) =>
      /\ i = Len(attemptTrace[r])
      /\ pc[r] = "done"
      /\ selected[r] = i
      /\ Len(outbound[r]) > 0
      /\ outbound[r][Len(outbound[r])].i = i

\* A search request won by its second plan entry with entries left over.
C1_Witness ==
  \E r \in Reqs :
    /\ req[r].route = "search" /\ pc[r] = "done"
    /\ selected[r] = 2 /\ Len(attempts[r]) > 2
    /\ Len(attemptTrace[r]) = 2 /\ isSuccess(attemptTrace[r][2])

tierRank(a) ==
  CASE a.countryResolution = "exact" -> 1
    [] a.countryResolution = "proxy" -> 2
    [] a.countryResolution = "global" -> 3

\* C2: in a plan every exact attempt precedes every proxy attempt and every
\* proxy attempt precedes every global attempt.
C2_TierOrder ==
  planIn.built =>
    \A i, j \in 1..Len(plan) : i < j => tierRank(plan[i]) <= tierRank(plan[j])

\* A plan holding attempts of all three tiers.
C2_Witness ==
  /\ planIn.built
  /\ \E i, j, k \in 1..Len(plan) :
       /\ plan[i].countryResolution = "exact"
       /\ plan[j].countryResolution = "proxy"
       /\ plan[k].countryResolution = "global"

identityKey(a) ==
  <<a.provider, a.keySource, a.requestedCountry, a.resolvedCountry, a.countryParam, a.countryResolution>>

\* C3: no two attempts of a plan have the same identity key.
C3_NoDuplicateAttempts ==
  planIn.built =>
    \A i, j \in 1..Len(plan) : i # j => identityKey(plan[i]) # identityKey(plan[j])

\* A plan in which a provider appears with both of its credentials and in
\* more than one tier.
C3_Witness ==
  /\ planIn.built
  /\ \E i, j, k \in 1..Len(plan) :
       /\ plan[i].provider = plan[j].provider /\ plan[i].provider = plan[k].provider
       /\ plan[i].countryResolution = plan[j].countryResolution
       /\ plan[i].keySource = "user" /\ plan[j].keySource = "server"
       /\ plan[k].countryResolution # plan[i].countryResolution

\* C4: a step of a search request whose next plan entry has a server key
\* while the budget is spent records that entry as skipped (503,
\* daily_miss_budget_exceeded), issues no call, consumes nothing and moves
\* to the next plan entry; a step at a user-key entry always issues its call.
C4_BudgetSkipContinues ==
  [][\A r \in Reqs :
       (StepOf(r) /\ pc[r] = "walk" /\ req[r].route = "search") =>
         LET attempt == attempts[r][idx[r]] IN
         /\ (attempt.keySource = "server" /\ budgetExhausted) =>
              /\ attemptTrace'[r] = Append(attemptTrace[r],
                   [provider |-> attempt.provider, status |-> 503,
                    key_source |-> "server",
                    reason |-> "daily_miss_budget_exceeded",
                    exact_country_applied |-> attempt.exactCountryApplied])
              /\ outbound'[r] = outbound[r]
              /\ serverKeyDailyMissState'.misses <= serverKeyDailyMissState.misses
              /\ idx'[r] = idx[r] + 1
              /\ idx[r] < Len(attempts[r]) => pc'[r] = "walk"
         /\ attempt.keySource = "user" =>
              /\ Len(outbound'[r]) = Len(outbound[r]) + 1
              /\ outbound'[r][Len(outbound'[r])].i = idx[r]
              /\ pc'[r] = "await"
  ]_vars

\* A walk in which a server entry was skipped and a later user entry was
\* then called.
C4_Witness ==
  \E r \in Reqs : \E i, j \in 1..Len(attemptTrace[r]) :
    /\ i < j
    /\ isSkipped(attemptTrace[r][i])
    /\ attemptTrace[r][j].key_source = "user"
    /\ \E k \in 1..Len(outbound[r]) : outbound[r][k].i = j

\* C5: the daily counter never exceeds the configured ceiling.
C5_CounterWithinCeiling ==
  serverKeyDailyMissState.misses <= dailyMissBudget

\* The counter stands at a positive ceiling and a server attempt has been
\* refused on a later day than the first consumption.
C5_Witness ==
  /\ dailyMissBudget > 0
  /\ serverKeyDailyMissState.misses = dailyMissBudget
  /\ serverKeyDailyMissState.date > 0
  /\ \E r \in Reqs : \E i \in 1..Len(attemptTrace[r]) : isSkipped(attemptTrace[r][i])

\* C6: every upstream call made with a server key had one budget unit
\* consumed for it beforehand.
C6_ServerCallsConsumeBudget ==
  \A r \in Reqs : \A k \in 1..Len(outbound[r]) :
    outbound[r][k].keySource = "server" => outbound[r][k].consumed

\* C7: a step of a request at a user-key plan entry (issuing the call or
\* taking its result) leaves the budget state as it is, and so does every
\* step of a request whose plan holds user-key entries only.
C7_UserAttemptsLeaveBudget ==
  [][\A r \in Reqs :
       StepOf(r) =>
         /\ (pc[r] \in {"walk", "await"} /\ attempts[r][idx[r]].keySource = "user")
              => serverKeyDailyMissState' = serverKeyDailyMissState
         /\ (\A i \in 1..Len(attempts'[r]) : attempts'[r][i].keySource = "user")
              => serverKeyDailyMissState' = serverKeyDailyMissState
  ]_vars

\* A user-key attempt has failed in a walk that had consumed budget before.
C7_Witness ==
  \E r \in Reqs : \E i, j \in 1..Len(attemptTrace[r]) :
    /\ i < j
    /\ attemptTrace[r][i].key_source = "server" /\ ~isSkipped(attemptTrace[r][i])
    /\ attemptTrace[r][j].key_source = "user" /\ attemptTrace[r][j].status = 0
    /\ serverKeyDailyMissState.misses = 1

\* C8: under any interleaving of the requests the counter of the recorded
\* date equals the number of server attempts let through on that date, and
\* no date sees more of them than the ceiling.
C8_CounterEqualsAdmitted ==
  /\ serverKeyDailyMissState.date # NoDate =>
       serverKeyDailyMissState.misses = admitted[serverKeyDailyMissState.date]
  /\ serverKeyDailyMissState.date = NoDate => \A d \in Days : admitted[d] = 0
  /\ \A d \in Days : admitted[d] <= dailyMissBudget

\* Two requests wait for server-key calls at the same time, both charged on
\* the same date.
C8_Witness ==
  /\ \A r \in Reqs :
       /\ pc[r] = "await"
       /\ outbound[r][Len(outbound[r])].consumed
  /\ serverKeyDailyMissState.misses = 2
  /\ serverKeyDailyMissState.date = todayUtc(nowMs)

\* The timestamps of a bucket that lie in the trailing window of now.
withinWindow(times, now) == {i \in 1..Len(times) : times[i] >= now - WINDOW_MS}

rlKey(ip) == IF ip = "" THEN "unknown" ELSE ip

\* The step is a rateLimit call by ip whose effect shows.
RlStep(ip) == (rl' # rl \/ buckets' # buckets) /\ rl'.ip = ip /\ rl'.nowMs = nowMs

\* C9: a check by an identity with LIMIT admitted timestamps in the trailing
\* window is rejected with retryAfterSeconds >= 1.
C9_RejectsBeyondLimit ==
  [][\A ip \in RlIps :
       (RlStep(ip) /\ Cardinality(withinWindow(bucketOf(buckets, rlKey(ip)), nowMs)) >= LIMIT)
         => (~rl'.allowed /\ rl'.retryAfterSeconds >= 1)
  ]_vars

\* A rejected check against a bucket that is full within the window.
C9_Witness ==
  /\ rl.nowMs >= 0 /\ ~rl.allowed /\ rl.retryAfterSeconds >= 1
  /\ Len(bucketOf(buckets, rlKey(rl.ip))) = LIMIT
  /\ bucketOf(buckets, rlKey(rl.ip))[1] > rl.nowMs - WINDOW_MS

\* C10 as claimed: with a full bucket, a check made when now - oldest >= W
\* is admitted.
C10_AdmittedAtWindowEnd ==
  [][\A ip \in RlIps :
       LET times == bucketOf(buckets, rlKey(ip)) IN
       (RlStep(ip) /\ Len(times) = LIMIT /\ nowMs - times[1] >= WINDOW_MS)
         => rl'.allowed
  ]_vars

\* C10 amended: with a full bucket, a check made when now - oldest > W is
\* admitted (at now - oldest = W the oldest timestamp is not yet pruned).
C10_AdmittedAfterWindow ==
  [][\A ip \in RlIps :
       LET times == bucketOf(buckets, rlKey(ip)) IN
       (RlStep(ip) /\ Len(times) = LIMIT /\ nowMs - times[1] > WINDOW_MS)
         => (rl'.allowed /\ bucketOf(buckets', rlKey(ip))[Len(bucketOf(buckets', rlKey(ip)))] = nowMs)
  ]_vars

\* A check admitted more than a window after the oldest timestamp of a
\* bucket that had been full: the bucket now starts after that window.
C10_Witness ==
  /\ rl.allowed /\ rl.nowMs > WINDOW_MS
  /\ LET times == bucketOf(buckets, rlKey(rl.ip)) IN
       /\ Len(times) = LIMIT
       /\ times[1] = 1
       /\ times[Len(times)] = rl.nowMs

\* C11: every bucket holds at most LIMIT timestamps, and the bucket of the
\* identity checked last holds no timestamp older than that check's
\* now - WINDOW_MS.
C11_BucketBounded ==
  /\ \A key \in DOMAIN buckets : Len(buckets[key]) <= LIMIT
  /\ rl.nowMs >= 0 =>
       LET times == bucketOf(buckets, rlKey(rl.ip)) IN
       \A i \in 1..Len(times) : times[i] >= rl.nowMs - WINDOW_MS

\* A check one window and a millisecond after the start of a bucket that
\* held timestamps of the start and of the millisecond after it: the former
\* are gone, the latter stay.
C11_Witness ==
  /\ rl.nowMs = WINDOW_MS + 1
  /\ LET times == bucketOf(buckets, rlKey(rl.ip)) IN
       /\ Len(times) >= 3
       /\ times[1] = 1
       /\ times[2] = WINDOW_MS
       /\ times[Len(times)] = WINDOW_MS + 1

\* The response is one a CDN may store: cache mode vercel-cdn with
\* CDN-Cache-Control set.
cacheable(res) == res.cacheMode = "vercel-cdn" /\ res.cdnCacheControl # null

\* Request r has been answered 200 by /api/search.
searchSucceeded(r) ==
  pc[r] = "done" /\ req[r].route = "search" /\ response[r].status = 200 /\ selected[r] # 0

\* C12 as claimed: a successful search response is cacheable if and only if
\* the winning attempt used a server key.
C12_CacheableIffServerWinner ==
  \A r \in Reqs :
    searchSucceeded(r) =>
      (cacheable(response[r]) <=> attempts[r][selected[r]].keySource = "server")

\* C12 amended: a successful search response is cacheable if and only if
\* the request carried no usable user key; the winner of a cacheable
\* response used a server key, and a response that is not cacheable has
\* cache mode no-store, Cache-Control "private, no-store" and no
\* CDN-Cache-Control.
C12_CacheableIffNoUserKey ==
  \A r \in Reqs :
    searchSucceeded(r) =>
      /\ cacheable(response[r]) <=> ~hasAnyUserProviderKey(req[r].keys)
      /\ cacheable(response[r]) => attempts[r][selected[r]].keySource = "server"
      /\ ~cacheable(response[r]) =>
           /\ response[r].cacheMode = "no-store"
           /\ response[r].cacheControl = "private, no-store"
           /\ response[r].cdnCacheControl = null

\* A search won by a server key for a request that also carried a user key:
\* the response is not cacheable.
C12_Witness ==
  \E r \in Reqs :
    /\ searchSucceeded(r)
    /\ attempts[r][selected[r]].keySource = "server"
    /\ hasAnyUserProviderKey(req[r].keys)
    /\ ~cacheable(response[r])

\* Request r carried a user provider key that is not blank.
carriesUserKey(r) == req[r].route # "none" /\ hasAnyUserProviderKey(req[r].keys)

\* C13: every response to a request carrying a user key has Cache-Control
\* "private, no-store" and no CDN-Cache-Control, whatever the outcome.
C13_UserKeyNeverCached ==
  \A r \in Reqs :
    (pc[r] = "done" /\ carriesUserKey(r)) =>
      /\ response[r].cacheControl = "private, no-store"
      /\ response[r].cdnCacheControl = null
      /\ response[r].cacheMode # "vercel-cdn"

\* A search request carrying a user key whose attempts all failed, a server
\* key attempt among them.
C13_Witness ==
  \E r \in Reqs :
    /\ pc[r] = "done" /\ carriesUserKey(r) /\ req[r].route = "search"
    /\ response[r].status = 503 /\ response[r].error = "all_attempts_failed"
    /\ \E i \in 1..Len(attemptTrace[r]) : attemptTrace[r][i].key_source = "server"
    /\ \E i \in 1..Len(attemptTrace[r]) : attemptTrace[r][i].key_source = "user"

\* The country parameter was sent and is no ISO code.
invalidCountry(raw) == raw # null /\ toUpperCase(raw) \notin ISO_COUNTRY_CODES

\* The step of request r answers it at once: the request was new, it is now
\* over, nothing was called or traced for it and the budget state is as it
\* was.
rejectedAtOnce(r, statuses) ==
  /\ pc[r] = "new" /\ pc'[r] = "done"
  /\ response'[r].status \in statuses
  /\ outbound'[r] = <<>> /\ attemptTrace'[r] = <<>>
  /\ serverKeyDailyMissState' = serverKeyDailyMissState
  /\ admitted' = admitted

\* C14 as claimed: a request with an empty query or with a country code
\* outside the ISO set is rejected at once, on either route (with whatever
\* error status).
C14_BadInputRejected ==
  [][\A r \in Reqs :
       (StepOf(r) /\ (req'[r].q = "" \/ invalidCountry(req'[r].rawCountry)))
         => rejectedAtOnce(r, {400, 429, 503})
  ]_vars

\* C14 amended: a request with an empty query (either route), or a request
\* to /api/compare-country whose country is missing or outside the ISO set,
\* is rejected at once (400, or 429 when /api/search rate-limits it first);
\* /api/search takes a country outside the ISO set as no country hint.
C14_BadInputRejectedWhereRequired ==
  [][\A r \in Reqs :
       /\ (StepOf(r) /\ (req'[r].q = ""
             \/ (req'[r].route = "compare"
                   /\ (req'[r].rawCountry = null \/ invalidCountry(req'[r].rawCountry)))))
            => rejectedAtOnce(r, IF req'[r].route = "compare" THEN {400} ELSE {400, 429})
       /\ (StepOf(r) /\ req'[r].route = "search" /\ invalidCountry(req'[r].rawCountry))
            => req'[r].countryHint = null
  ]_vars

\* A compare-country request with a query, server keys configured and the
\* country zz, answered 400.
C14_Witness ==
  \E r \in Reqs :
    /\ pc[r] = "done" /\ req[r].route = "compare"
    /\ req[r].q # "" /\ req[r].rawCountry = "zz"
    /\ hasAnyProviderKey(req[r].keys)
    /\ response[r].status = 400 /\ response[r].error = "invalid_country"
    /\ outbound[r] = <<>>

\* The bucket of ip is full within the window ending now: a check is over
\* the limit.
overLimit(ip) ==
  Cardinality(withinWindow(bucketOf(buckets, rlKey(ip)), nowMs)) >= LIMIT

\* No provider has a usable key, from the request or from the environment.
noCredential(keys) ==
  \A p \in ProviderId : trim(keys.user[p]) = "" /\ trim(keys.server[p]) = ""

\* C15: a request that is rate-limited (/api/search), or has no usable
\* provider key, or whose plan is empty, is answered at once by its first
\* step: no outbound call, no trace entry, budget untouched.
C15_PolicyErrorsRejected ==
  [][\A r \in Reqs :
       (StepOf(r) /\ pc[r] = "new" /\
          \/ (req'[r].route = "search" /\ overLimit(req'[r].ip))
          \/ noCredential(req'[r].keys)
          \/ (req'[r].q # "" /\ Len(buildProviderAttempts(req'[r].countryHint, req'[r].keys)) = 0))
         => rejectedAtOnce(r, {429, 400, 503})
  ]_vars

\* A search request with a query and a server key configured, answered 429.
C15_Witness ==
  \E r \in Reqs :
    /\ pc[r] = "done" /\ req[r].route = "search"
    /\ req[r].q # "" /\ ~noCredential(req[r].keys)
    /\ response[r].status = 429 /\ response[r].error = "rate_limited"
    /\ outbound[r] = <<>> /\ attemptTrace[r] = <<>>

\* The call recorded as e by request r is traced as a failed attempt and
\* the walk went on past it: it did not win, the loop moved on, and a
\* request that is over has dealt with every plan entry after it or was won
\* by a later one.
tracedAsFailure(r, e) ==
  /\ Len(attemptTrace[r]) >= e.i
  /\ ~isSuccess(attemptTrace[r][e.i])
  /\ attemptTrace[r][e.i].provider = attempts[r][e.i].provider
  /\ selected[r] # e.i
  /\ idx[r] > e.i
  /\ (pc[r] = "done" /\ e.i < Len(attempts[r])) => Len(attemptTrace[r]) > e.i

\* C16: an attempt whose call ended in a timeout, a transport failure, a
\* non-success HTTP status or a body that does not parse is in the trace as
\* a failed attempt, and the walk went on to the next plan entry.
C16_UpstreamErrorsNonFatal ==
  \A r \in Reqs : \A k \in 1..Len(outbound[r]) :
    outbound[r][k].outcome \in {"timeout", "transport", "http_error", "unparseable"}
      => tracedAsFailure(r, outbound[r][k])

\* The status executeProviderAttempt reports for a call that ended as kind.
statusOf(kind) ==
  LET o == CHOOSE x \in Upstreams : x.kind = kind
  IN fetchJsonWithTimeout(o).status

\* Trace entry i of request r is the record of plan entry i: either the
\* budget skip (no call was issued for it) or the status of its one call.
tracesPlanEntry(r, i) ==
  LET t == attemptTrace[r][i]
      a == attempts[r][i]
      calls == {k \in 1..Len(outbound[r]) : outbound[r][k].i = i}
  IN /\ t.provider = a.provider /\ t.key_source = a.keySource
     /\ \/ /\ isSkipped(t) /\ t.status = 503 /\ a.keySource = "server" /\ calls = {}
        \/ /\ ~isSkipped(t) /\ t.reason = a.reason
           /\ Cardinality(calls) = 1
           /\ \A k \in calls : outbound[r][k].outcome # "pending"
                                 /\ t.status = statusOf(outbound[r][k].outcome)
                                 /\ ~isSuccess(t)

\* C17: a search request whose walk ended with nothing selected is answered
\* 503 and its trace has one entry per plan entry, in plan order, each the
\* budget skip or the upstream status of that entry.
C17_ExhaustionTracesWholePlan ==
  \A r \in Reqs :
    (pc[r] = "done" /\ req[r].route = "search" /\ Len(attempts[r]) > 0 /\ selected[r] = 0) =>
      /\ response[r].status = 503 /\ response[r].error = "all_attempts_failed"
      /\ Len(attemptTrace[r]) = Len(attempts[r])
      /\ \A i \in 1..Len(attempts[r]) : tracesPlanEntry(r, i)

\* A failed search whose plan had a server entry skipped for budget and two
\* entries that were called and failed differently.
C17_Witness ==
  \E r \in Reqs :
    /\ pc[r] = "done" /\ req[r].route = "search" /\ selected[r] = 0
    /\ response[r].status = 503
    /\ Len(attemptTrace[r]) = Len(attempts[r]) /\ Len(attempts[r]) >= 3
    /\ \E i, j, k \in 1..Len(attemptTrace[r]) :
         /\ isSkipped(attemptTrace[r][i])
         /\ attemptTrace[r][j].status = 0 /\ attemptTrace[r][k].status = 500

\* The step of request r consults the budget: its loop stands at a server
\* entry of the /api/search plan.
consults(r) ==
  /\ StepOf(r) /\ pc[r] = "walk" /\ req[r].route = "search"
  /\ attempts[r][idx[r]].keySource = "server"

\* C18: a consultation on a date other than the recorded one records the
\* new date and restarts the counter from zero (it then counts this
\* attempt, if the ceiling lets it through); a consultation on the recorded
\* date keeps the date and never lowers the counter; nothing but a
\* consultation changes the budget state.
C18_ResetOncePerDate ==
  [][LET s == serverKeyDailyMissState
         t == serverKeyDailyMissState'
         today == todayUtc(nowMs)
     IN /\ \A r \in Reqs : consults(r) =>
             /\ t.date = today
             /\ s.date # today => t.misses = (IF dailyMissBudget > 0 THEN 1 ELSE 0)
             /\ s.date = today =>
                  t.misses = (IF s.misses < dailyMissBudget THEN s.misses + 1 ELSE s.misses)
        /\ (\A r \in Reqs : ~consults(r)) => t = s
  ]_vars

\* The counter was restarted on the second date after two attempts had
\* been let through on the first, then counted one attempt, and a second
\* consultation on that date has added to it.
C18_Witness ==
  /\ serverKeyDailyMissState.date = 1
  /\ serverKeyDailyMissState.misses = 2
  /\ admitted[0] = 2 /\ admitted[1] = 2

\* C19: the plan of a request without a country holds global attempts only,
\* each with requestedCountry and resolvedCountry null.
C19_NullCountryGlobalOnly ==
  (planIn.built /\ planIn.countryHint = null) =>
    \A i \in 1..Len(plan) :
      /\ plan[i].countryResolution = "global"
      /\ plan[i].requestedCountry = null
      /\ plan[i].resolvedCountry = null

\* The plan of a request without a country for which every provider has
\* both keys: six global attempts.
C19_Witness ==
  /\ planIn.built /\ planIn.countryHint = null
  /\ Len(plan) = 6
  /\ plan[1].countryResolution = "global"

\* Provider p has a usable key of the given source.
usable(keys, p, source) ==
  IF source = "user" THEN trim(keys.user[p]) # "" ELSE trim(keys.server[p]) # ""

\* C20: every attempt of a plan carries the trimmed, non-blank key of its
\* provider and source (a provider without a usable key of a source has no
\* attempt of that source), and for a provider with both keys each user
\* attempt is followed at once by the server attempt of the same tier, each
\* server attempt preceded at once by the user attempt.
C20_UsableKeysUserFirst ==
  planIn.built =>
    \A i \in 1..Len(plan) :
      LET a == plan[i] IN
      /\ trim(a.key) # "" /\ a.key # ""
      /\ usable(planIn.keys, a.provider, a.keySource)
      /\ a.key = (IF a.keySource = "user" THEN trim(planIn.keys.user[a.provider])
                  ELSE trim(planIn.keys.server[a.provider]))
      /\ (usable(planIn.keys, a.provider, "user") /\ usable(planIn.keys, a.provider, "server")) =>
           LET j == IF a.keySource = "user" THEN i + 1 ELSE i - 1 IN
           /\ j \in 1..Len(plan)
           /\ plan[j].provider = a.provider
           /\ plan[j].keySource # a.keySource
           /\ plan[j].countryResolution = a.countryResolution
           /\ plan[j].countryParam = a.countryParam

\* A plan for a country in which one provider has both keys and appears in
\* two tiers, while another provider has only a blank user key and does not
\* appear at all.
C20_Witness ==
  /\ planIn.built /\ planIn.countryHint # null
  /\ \E p, q \in ProviderId :
       /\ usable(planIn.keys, p, "user") /\ usable(planIn.keys, p, "server")
       /\ planIn.keys.user[q] = "  " /\ planIn.keys.server[q] = ""
       /\ \A i \in 1..Len(plan) : plan[i].provider # q
       /\ \E i, j \in 1..Len(plan) :
            /\ plan[i].provider = p /\ plan[j].provider = p
            /\ plan[i].countryResolution # plan[j].countryResolution

\* The place of a provider in the fixed priority order.
providerRank(p) ==
  CASE p = "serpapi" -> 1
    [] p = "searchapi" -> 2
    [] p = "brave" -> 3

\* C21: within each tier of a plan the providers appear in the fixed order
\* serpapi, searchapi, brave, whatever the country and the credentials.
\* (That two calls with the same arguments return the same list holds of the
\* code because buildProviderAttempts reads its arguments and constant
\* tables only.)
C21_ProviderOrderWithinTier ==
  planIn.built =>
    \A i, j \in 1..Len(plan) :
      (i < j /\ plan[i].countryResolution = plan[j].countryResolution)
        => providerRank(plan[i].provider) <= providerRank(plan[j].provider)

\* A plan whose global tier holds all three providers and whose exact tier
\* holds at least two.
C21_Witness ==
  /\ planIn.built
  /\ \A p \in ProviderId : \E i \in 1..Len(plan) :
       plan[i].provider = p /\ plan[i].countryResolution = "global"
  /\ \E i, j \in 1..Len(plan) :
       /\ plan[i].countryResolution = "exact" /\ plan[j].countryResolution = "exact"
       /\ plan[i].provider # plan[j].provider

\* The positions of the plan held by attempts of provider p with a key of
\* source s in the given tier.
attemptsOf(p, s, tier) ==
  {i \in 1..Len(plan) :
     plan[i].provider = p /\ plan[i].keySource = s /\ plan[i].countryResolution = tier}

\* Provider p has a usable key of some source.
credentialed(keys, p) == usable(keys, p, "user") \/ usable(keys, p, "server")

\* C22: in the plan for a country c, provider p with a key of source s has
\* an exact attempt iff p supports c and the key is usable, a proxy attempt
\* iff p does not support c, has a valid proxy for it and the key is usable,
\* and one global attempt iff the key is usable (none otherwise); so the
\* plan starts with an exact attempt when a credentialed provider supports
\* c, and with a proxy attempt when none does but one has a proxy.
C22_TierMembership ==
  (planIn.built /\ planIn.countryHint # null) =>
    LET c == planIn.countryHint
        keys == planIn.keys
    IN /\ \A p \in ProviderId : \A s \in ProviderKeySource :
            /\ Cardinality(attemptsOf(p, s, "exact")) =
                 (IF providerSupportsCountry(p, c) /\ usable(keys, p, s) THEN 1 ELSE 0)
            /\ Cardinality(attemptsOf(p, s, "proxy")) =
                 (IF ~providerSupportsCountry(p, c) /\ resolveProxyCountry(p, c) # null
                     /\ usable(keys, p, s) THEN 1 ELSE 0)
            /\ Cardinality(attemptsOf(p, s, "global")) = (IF usable(keys, p, s) THEN 1 ELSE 0)
            /\ \A i \in attemptsOf(p, s, "exact") :
                 plan[i].requestedCountry = c /\ plan[i].resolvedCountry = c
            /\ \A i \in attemptsOf(p, s, "proxy") :
                 plan[i].requestedCountry = c /\ plan[i].resolvedCountry = resolveProxyCountry(p, c)
       /\ (\E p \in ProviderId : credentialed(keys, p) /\ providerSupportsCountry(p, c))
            => plan[1].countryResolution = "exact"
       /\ ( /\ ~\E p \in ProviderId : credentialed(keys, p) /\ providerSupportsCountry(p, c)
            /\ \E p \in ProviderId : credentialed(keys, p) /\ resolveProxyCountry(p, c) # null )
            => plan[1].countryResolution = "proxy"

\* The plan for a country that no credentialed provider supports: it starts
\* with a proxy attempt, has global attempts and no exact one, although a
\* provider without a key would have supported the country.
C22_Witness ==
  /\ planIn.built /\ planIn.countryHint # null
  /\ Len(plan) >= 2
  /\ plan[1].countryResolution = "proxy"
  /\ plan[Len(plan)].countryResolution = "global"
  /\ \E p \in ProviderId :
       ~credentialed(planIn.keys, p) /\ providerSupportsCountry(p, planIn.countryHint)

\* C23: for the country of the request and every provider, the proxy that
\* resolveProxyCountry returns is null or a country the provider supports
\* exactly; every proxy attempt of a plan has a resolvedCountry its provider
\* supports exactly, other than the requested country.
C23_ProxiesNeverChain ==
  planIn.countryHint # null =>
    /\ \A p \in ProviderId :
         LET mapped == resolveProxyCountry(p, planIn.countryHint)
         IN mapped = null \/ (mapped \in ISO_COUNTRY_CODES /\ providerSupportsCountry(p, mapped))
    /\ planIn.built =>
         \A i \in 1..Len(plan) :
           plan[i].countryResolution = "proxy" =>
             /\ plan[i].resolvedCountry # null
             /\ providerSupportsCountry(plan[i].provider, plan[i].resolvedCountry)
             /\ plan[i].resolvedCountry # plan[i].requestedCountry
             /\ plan[i].requestedCountry = planIn.countryHint

\* The plan for the Aland Islands, which every provider reaches through
\* Finland: three providers with proxy attempts.
C23_Witness ==
  /\ planIn.built /\ planIn.countryHint = "AX"
  /\ \A p \in ProviderId : \E i \in 1..Len(plan) :
       /\ plan[i].provider = p /\ plan[i].countryResolution = "proxy"
       /\ plan[i].resolvedCountry = "FI"

\* The countries some provider supports exactly, and those some provider
\* reaches exactly or through a proxy.
exactCovered == {c \in ISO_COUNTRY_CODES : hasAnyExactCountrySupport(c)}

targetedCovered == {c \in ISO_COUNTRY_CODES : hasAnyTargetedCountrySupport(c)}

\* C24: of the 249 countries 248 have exact support and all 249 targeted
\* support, exact support implying targeted support; the country of the
\* request is among the former unless it is AX.
C24_CoverageCounts ==
  /\ Cardinality(ISO_COUNTRY_CODES) = 249
  /\ Cardinality(exactCovered) = 248
  /\ Cardinality(targetedCovered) = 249
  /\ exactCovered \subseteq targetedCovered
  /\ planIn.countryHint # null =>
       /\ hasAnyExactCountrySupport(planIn.countryHint) <=> planIn.countryHint # "AX"
       /\ hasAnyTargetedCountrySupport(planIn.countryHint)

\* The plan for the one country without exact support, every provider
\* holding both keys: no exact attempt, six proxy attempts.
C24_Witness ==
  /\ planIn.built /\ planIn.countryHint = "AX"
  /\ ~hasAnyExactCountrySupport(planIn.countryHint)
  /\ \A p \in ProviderId : usable(planIn.keys, p, "user") /\ usable(planIn.keys, p, "server")
  /\ Cardinality({i \in 1..Len(plan) : plan[i].countryResolution = "proxy"}) = 6
  /\ \A i \in 1..Len(plan) : plan[i].countryResolution # "exact"


\* C25: the parsed country is the upper-cased parameter when that is one of
\* the ISO codes and null for every other parameter (absent, empty, unknown
\* or longer code), and every attempt of the plan is for the parsed country,
\* a member of the set or null.
C25_ParsedCountryInIsoSet ==
  planIn.built =>
    LET raw == planIn.rawCountry
        upper == IF raw = null THEN "" ELSE toUpperCase(raw)
    IN /\ upper \in ISO_COUNTRY_CODES => planIn.countryHint = upper
       /\ upper \notin ISO_COUNTRY_CODES => planIn.countryHint = null
       /\ raw \in {"fr", "Fr", "FR"} => planIn.countryHint = "FR"
       /\ raw \in {null, "", "zz", "fra"} => planIn.countryHint = null
       /\ planIn.countryHint \in ISO_COUNTRY_CODES \cup {null}
       /\ \A i \in 1..Len(plan) : plan[i].requestedCountry = planIn.countryHint

\* A lower-case code parsed to its upper case and planned for.
C25_Witness ==
  /\ planIn.built /\ planIn.rawCountry = "fr" /\ planIn.countryHint = "FR"
  /\ Len(plan) > 0
  /\ \A i \in 1..Len(plan) : plan[i].requestedCountry = "FR"

\* A call of the named post-processing function has returned.
returned(fn) == libIn.fn = fn /\ libIn.done

\* The result has no URL to key on.
hasEmptyUrl(r) == trimUrl(r.url) = EmptyString

\* The strictly increasing maps from the positions of out to those of xs.
embeddings(out, xs) ==
  {f \in [1..Len(out) -> 1..Len(xs)] : \A i, j \in 1..Len(out) : i < j => f[i] < f[j]}

\* The positions of xs whose result dedupByCanonicalUrl has to keep: those
\* without a URL, and the first position of every canonical URL.
firstOccurrences(xs) ==
  {j \in 1..Len(xs) :
     \/ hasEmptyUrl(xs[j])
     \/ \A i \in 1..(j - 1) :
          hasEmptyUrl(xs[i]) \/ canonicalizeUrl(xs[i].url) # canonicalizeUrl(xs[j].url)}

\* C26: the list dedupByCanonicalUrl returns is a fixed point of it, is made
\* of results of the input, unmodified and in their input order, and holds
\* of every canonical URL the first result that has it and no other.
C26_DedupIdempotentOrdered ==
  returned("dedupByCanonicalUrl") =>
    LET xs == libIn.arg
        out == libOut
    IN /\ dedupByCanonicalUrl(out) = out
       /\ \E f \in embeddings(out, xs) :
            /\ \A i \in 1..Len(out) : out[i] = xs[f[i]]
            /\ {f[i] : i \in 1..Len(out)} = firstOccurrences(xs)

\* The list of the test: the first and second result share a canonical URL,
\* the first and the third come back.
C26_Witness ==
  /\ returned("dedupByCanonicalUrl")
  /\ Len(libIn.arg) = 3 /\ Len(libOut) = 2
  /\ libIn.arg[1].url.query # <<>> /\ libIn.arg[2].url.host = "EXAMPLE.com"
  /\ libIn.arg[3].url.path = "/b"
  /\ libOut = <<libIn.arg[1], libIn.arg[3]>>

\* The results of a list that have a URL, in their order.
withUrl(xs) ==
  LET keyed(r) == ~hasEmptyUrl(r)
  IN SelectSeq(xs, keyed)

\* C27: every result whose URL is empty after trimming is returned, as many
\* times as it was given, and the results with a URL that are returned are
\* those returned for the list without the empty-URL results.
C27_EmptyUrlAlwaysKept ==
  returned("dedupByCanonicalUrl") =>
    LET xs == libIn.arg
        out == libOut
    IN /\ \A j \in 1..Len(xs) : hasEmptyUrl(xs[j]) => \E i \in 1..Len(out) : out[i] = xs[j]
       /\ Cardinality({i \in 1..Len(out) : hasEmptyUrl(out[i])})
            = Cardinality({j \in 1..Len(xs) : hasEmptyUrl(xs[j])})
       /\ withUrl(out) = dedupByCanonicalUrl(withUrl(xs))

\* An empty and a blank URL around a URL: all three results come back.
C27_Witness ==
  /\ returned("dedupByCanonicalUrl")
  /\ Len(libIn.arg) = 3
  /\ libIn.arg[1].url = EmptyString
  /\ libIn.arg[2].url.kind = "url"
  /\ libIn.arg[3].url = [EmptyString EXCEPT !.pad = TRUE]
  /\ libOut = libIn.arg

\* The query of a URL string as the pairs its parser reads.
decodedQuery(s) == [i \in 1..Len(s.query) |-> [k |-> formDecode(s.query[i].k), v |-> formDecode(s.query[i].v)]]

\* The name of the parameter marks it as a tracking parameter.
isTracking(p) == startsWithUtm(keyToLowerCase(p.k)) \/ keyToLowerCase(p.k) \in TRACKING_PARAMS

\* How many times the pair occurs in the list.
occurrences(ps, p) == Cardinality({i \in 1..Len(ps) : ps[i] = p})

\* C28: canonicalizeUrl returns a fixed point of itself for every argument;
\* for a URL the result has no surrounding blanks, a lower-case host, no
\* fragment, no parameter with a utm_ or tracking name, every other
\* parameter of the argument as often as given, and its parameters in
\* ascending order of key, then value; for any other argument it is the
\* trimmed argument.
C28_CanonicalIdempotent ==
  returned("canonicalizeUrl") =>
    LET u == libIn.arg
        c == libOut
        ps == decodedQuery(c)
        qs == decodedQuery(u)
    IN /\ canonicalizeUrl(c) = c
       /\ ~c.pad
       /\ u.kind # "url" => c = trimUrl(u)
       /\ u.kind = "url" =>
            /\ c.kind = "url" /\ c.scheme = u.scheme /\ c.path = u.path
            /\ c.host = "example.com"
            /\ c.hash = ""
            /\ \A i \in 1..Len(ps) : ~isTracking(ps[i])
            /\ \A i \in 1..Len(qs) : ~isTracking(qs[i]) => occurrences(ps, qs[i]) = occurrences(qs, qs[i])
            /\ \A i, j \in 1..Len(ps) :
                 i < j => \/ collationRank(ps[i].k) < collationRank(ps[j].k)
                          \/ ps[i].k = ps[j].k /\ collationRank(ps[i].v) <= collationRank(ps[j].v)

\* A padded URL with a mixed-case host, a fragment, a tracking parameter
\* and two parameters out of order, one of them percent-encoded.
C28_Witness ==
  /\ returned("canonicalizeUrl")
  /\ libIn.arg.pad /\ libIn.arg.host = "Example.com" /\ libIn.arg.hash = "section"
  /\ libIn.arg.query = <<[k |-> "utm_source", v |-> "1"], [k |-> "B", v |-> "1"], [k |-> "a", v |-> "x%20y"]>>
  /\ libOut.query = <<[k |-> "a", v |-> "x+y"], [k |-> "B", v |-> "1"]>>
  /\ libOut.host = "example.com" /\ libOut.hash = "" /\ ~libOut.pad

\* The four histograms of a panel.
histogramsOf(panel) ==
  {panel.histograms.tld, panel.histograms.country_inferred, panel.histograms.lang_detected,
   panel.histograms.top_domains}

\* The list xs taken in the order p of its positions.
reordered(xs, p) == [i \in 1..Len(xs) |-> xs[p[i]]]

permutations(n) == {p \in [1..n -> 1..n] : \A i, j \in 1..n : p[i] = p[j] => i = j}

\* The non-empty values of one field of the results.
fieldValues(xs, field) == {xs[i][field] : i \in 1..Len(xs)} \ {""}

\* C29: in every histogram of the panel the keys are the distinct non-empty
\* values of its field, one row each with the number of results that have
\* the value, rows of higher count come first and rows of equal count are
\* in ascending collation order of their keys; the panel of the results in
\* any other order is the same panel.
C29_HistogramOrder ==
  returned("computeRealityPanel") =>
    LET xs == libIn.arg
        panel == libOut
        rowsFor(h, field) ==
          /\ {h[i].key : i \in 1..Len(h)} = fieldValues(xs, field)
          /\ Len(h) = Cardinality(fieldValues(xs, field))
          /\ \A i \in 1..Len(h) : h[i].count = Cardinality({j \in 1..Len(xs) : xs[j][field] = h[i].key})
    IN /\ rowsFor(panel.histograms.tld, "tld")
       /\ rowsFor(panel.histograms.country_inferred, "country_inferred")
       /\ rowsFor(panel.histograms.lang_detected, "lang_detected")
       /\ rowsFor(panel.histograms.top_domains, "domain")
       /\ \A h \in histogramsOf(panel) : \A i, j \in 1..Len(h) :
            i < j => \/ h[i].count > h[j].count
                     \/ h[i].count = h[j].count /\ collationRank(h[i].key) < collationRank(h[j].key)
       /\ \A p \in permutations(Len(xs)) : computeRealityPanel(reordered(xs, p)) = panel

\* Three results given with the later keys first: every histogram has three
\* rows of count one, in ascending order of their keys.
C29_Witness ==
  /\ returned("computeRealityPanel")
  /\ Len(libIn.arg) = 3
  /\ libIn.arg[1].country_inferred = "US" /\ libIn.arg[2].country_inferred = "unknown"
  /\ libIn.arg[3].country_inferred = "FR"
  /\ libOut.histograms.country_inferred
       = <<[key |-> "FR", count |-> 1, pct |-> 333], [key |-> "unknown", count |-> 1, pct |-> 333],
           [key |-> "US", count |-> 1, pct |-> 333]>>

\* C30: after an admitted check retryAfterSeconds is 0; after a rejected one
\* it is between 1 and 3600 and is the least such number of seconds that
\* reaches the instant the oldest remaining timestamp leaves the window.
C30_RetryAfterSeconds ==
  rl.nowMs >= 0 =>
    LET times == bucketOf(buckets, rlKey(rl.ip))
        wait == times[1] + WINDOW_MS - rl.nowMs
        retry == rl.retryAfterSeconds
    IN /\ rl.allowed => retry = 0
       /\ ~rl.allowed =>
            /\ retry \in 1..3600
            /\ 1000 * retry >= wait
            /\ retry > 1 => 1000 * (retry - 1) < wait

\* A check rejected one millisecond after the bucket filled up: 3599999 ms
\* are left, reported as 3600 s.
C30_Witness ==
  /\ ~rl.allowed /\ rl.nowMs = 1
  /\ bucketOf(buckets, rlKey(rl.ip))[1] = 0
  /\ rl.retryAfterSeconds = 3600

\* The timestamps of a bucket that a check at the instant now leaves in it.
unexpired(times, now) ==
  LET fresh(t) == t >= now - WINDOW_MS
  IN SelectSeq(times, fresh)

\* C31: a rejected check leaves in the bucket of its identity exactly the
\* unexpired timestamps it found, so the oldest of them stays the oldest; an
\* admitted check leaves those followed by one timestamp, the instant of the
\* check.
C31_RejectAppendsNothing ==
  [][\A ip \in RlIps :
       LET before == unexpired(bucketOf(buckets, rlKey(ip)), nowMs)
           after == bucketOf(buckets', rlKey(ip))
       IN RlStep(ip) =>
            /\ ~rl'.allowed => (after = before /\ after[1] = before[1])
            /\ rl'.allowed => after = Append(before, nowMs)
  ]_vars

\* A check rejected a millisecond after the bucket filled up: the bucket
\* still ends with the timestamps of the admitted checks.
C31_Witness ==
  /\ ~rl.allowed /\ rl.nowMs = 1
  /\ LET times == bucketOf(buckets, rlKey(rl.ip))
     IN Len(times) = LIMIT /\ times[Len(times)] < rl.nowMs

\* C32: a check by one identity changes the bucket of no other key, the
\* empty identity is never a key of its own, and a check by the empty
\* identity is counted in the bucket "unknown".
C32_BucketsPerIdentity ==
  [][\A ip \in RlIps :
       RlStep(ip) =>
         /\ \A other \in (DOMAIN buckets \cup DOMAIN buckets') \ {IF ip = "" THEN "unknown" ELSE ip} :
              /\ other \in DOMAIN buckets /\ other \in DOMAIN buckets'
              /\ buckets'[other] = buckets[other]
         /\ "" \notin DOMAIN buckets'
         /\ (ip = "" /\ rl'.allowed) =>
              Len(bucketOf(buckets', "unknown")) = Len(unexpired(bucketOf(buckets, "unknown"), nowMs)) + 1
  ]_vars

\* The empty identity admitted into the bucket "unknown", which holds more
\* than its own timestamp, next to the bucket of an address.
C32_Witness ==
  /\ rl.ip = "" /\ rl.allowed /\ rl.nowMs >= 0
  /\ DOMAIN buckets = {"unknown", "10.0.0.1"}
  /\ Len(buckets["unknown"]) >= 2
  /\ Len(buckets["10.0.0.1"]) >= 1

\* The calls of request r that have been issued and have not ended.
inFlight(r) == {k \in 1..Len(outbound[r]) : outbound[r][k].outcome = "pending"}

\* Plan entry j of request r was dealt with without a call.
skippedEntry(r, j) == Len(attemptTrace[r]) >= j /\ isSkipped(attemptTrace[r][j])

\* C33: a request has at most one call in flight, and it is the call issued
\* last, for the plan entry the loop stands at; every call issued before
\* another one is for an earlier plan entry, has ended and is in the trace
\* as a failure, and every plan entry passed over without a call is in the
\* trace as skipped.
C33_WalkSequential ==
  \A r \in Reqs :
    LET calls == outbound[r] IN
    /\ Cardinality(inFlight(r)) <= 1
    /\ \A k \in inFlight(r) : k = Len(calls) /\ pc[r] = "await" /\ calls[k].i = idx[r]
    /\ \A k \in 1..Len(calls) :
         LET first == IF k = 1 THEN 1 ELSE calls[k - 1].i + 1
         IN /\ first <= calls[k].i
            /\ \A j \in first..(calls[k].i - 1) : skippedEntry(r, j)
            /\ k > 1 => /\ calls[k - 1].outcome \in {"http_error", "timeout", "transport"}
                        /\ Len(attemptTrace[r]) >= calls[k - 1].i
                        /\ ~isSuccess(attemptTrace[r][calls[k - 1].i])
                        /\ ~isSkipped(attemptTrace[r][calls[k - 1].i])

\* A search request waiting for a later call of its walk, a call before it
\* having failed and an entry having been skipped.
C33_Witness ==
  \E r \in Reqs :
    /\ req[r].route = "search" /\ pc[r] = "await"
    /\ Len(outbound[r]) >= 2
    /\ inFlight(r) = {Len(outbound[r])}
    /\ \E j \in 1..Len(attemptTrace[r]) : isSkipped(attemptTrace[r][j])
    /\ \E j \in 1..Len(attemptTrace[r]) : ~isSkipped(attemptTrace[r][j])

\* The calls request r has issued for plan entry j.
callsFor(r, j) == {k \in 1..Len(outbound[r]) : outbound[r][k].i = j}

\* C34: a request issues at most one call for each entry of its plan and no
\* call for anything else, so no more calls than the plan has entries; its
\* trace has at most one entry per plan entry, the j-th being the record of
\* plan entry j.
C34_OneCallPerAttempt ==
  \A r \in Reqs :
    /\ \A k \in 1..Len(outbound[r]) : outbound[r][k].i \in 1..Len(attempts[r])
    /\ \A j \in 1..Len(attempts[r]) : Cardinality(callsFor(r, j)) <= 1
    /\ Len(outbound[r]) <= Len(attempts[r])
    /\ Len(attemptTrace[r]) <= Len(attempts[r])
    /\ \A j \in 1..Len(attemptTrace[r]) :
         /\ attemptTrace[r][j].provider = attempts[r][j].provider
         /\ attemptTrace[r][j].key_source = attempts[r][j].keySource
         /\ attemptTrace[r][j].exact_country_applied = attempts[r][j].exactCountryApplied
         /\ isSkipped(attemptTrace[r][j]) <=> callsFor(r, j) = {}

\* A request that called every entry of a plan of three or more, one of the
\* calls having timed out, and got no result.
C34_Witness ==
  \E r \in Reqs :
    /\ pc[r] = "done" /\ selected[r] = 0
    /\ Len(attempts[r]) >= 3
    /\ Len(outbound[r]) = Len(attempts[r])
    /\ Len(attemptTrace[r]) = Len(attempts[r])
    /\ \E k \in 1..Len(outbound[r]) : outbound[r][k].outcome = "timeout"

\* C35: the country parameter of an exact or proxy attempt is the resolved
\* country, in upper case for brave and in lower case for serpapi and
\* searchapi; that of a global attempt is "ALL" for brave and null for
\* serpapi and searchapi.
C35_CountryParamPerProvider ==
  planIn.built =>
    \A i \in 1..Len(plan) :
      LET a == plan[i] IN
      /\ a.countryResolution \in {"exact", "proxy"} =>
           /\ a.resolvedCountry \in ISO_COUNTRY_CODES
           /\ a.provider = "brave" => a.countryParam = a.resolvedCountry
           /\ a.provider \in {"serpapi", "searchapi"} =>
                /\ a.countryParam # a.resolvedCountry
                /\ toUpperCase(a.countryParam) = a.resolvedCountry
           /\ (a.resolvedCountry = "FR" /\ a.provider = "serpapi") => a.countryParam = "fr"
           /\ (a.resolvedCountry = "FI" /\ a.provider = "searchapi") => a.countryParam = "fi"
           /\ (a.resolvedCountry = "FI" /\ a.provider = "brave") => a.countryParam = "FI"
      /\ a.countryResolution = "global" =>
           /\ a.resolvedCountry = null
           /\ a.provider = "brave" => a.countryParam = "ALL"
           /\ a.provider \in {"serpapi", "searchapi"} => a.countryParam = null

\* The plan for the Aland Islands with every server key: proxy attempts
\* with fi, fi and FI, global attempts with null, null and ALL.
C35_Witness ==
  /\ planIn.built /\ planIn.rawCountry = "ax"
  /\ \E i, j, k \in 1..Len(plan) :
       /\ plan[i].provider = "serpapi" /\ plan[i].countryParam = "fi"
       /\ plan[j].provider = "brave" /\ plan[j].countryParam = "FI"
       /\ plan[k].provider = "brave" /\ plan[k].countryParam = "ALL"
  /\ \E i \in 1..Len(plan) : plan[i].provider = "searchapi" /\ plan[i].countryParam = null

\* Request r has been answered.
answered(r) == pc[r] = "done" /\ response[r].status # 0

\* C36: a request that has entered its walk is answered in the end, an
\* answered request keeps the one response it got and takes no further
\* step, and a walk visits each plan entry at most once.
C36_RequestTerminates ==
  /\ (pc["r1"] \in {"walk", "await"}) ~> answered("r1")
  /\ [](pc["r1"] = "done" => response["r1"].status \in {200, 400, 429, 503})
  /\ [][/\ pc["r1"] = "done" => (pc'["r1"] = "done" /\ response'["r1"] = response["r1"])
        /\ pc["r1"] # "done" => response["r1"] = NoResponse
        /\ idx'["r1"] >= idx["r1"] /\ idx'["r1"] <= Len(attempts'["r1"]) + 1
        /\ Len(attemptTrace'["r1"]) \in {Len(attemptTrace["r1"]), Len(attemptTrace["r1"]) + 1}
        /\ Len(attemptTrace'["r1"]) <= Len(attempts'["r1"])]_vars

\* A search request answered 200 by the last entry of a plan of three or
\* more, every entry before it having failed or been skipped.
C36_Witness ==
  /\ answered("r1") /\ req["r1"].route = "search"
  /\ response["r1"].status = 200
  /\ Len(attempts["r1"]) >= 3 /\ selected["r1"] = Len(attempts["r1"])
  /\ Len(attemptTrace["r1"]) = Len(attempts["r1"])

\* C37: the plan is empty exactly when no provider has a usable key of
\* either source, which is when hasAnyProviderKey is false; a plan for keys
\* that pass hasAnyProviderKey has an entry and ends with a global attempt.
C37_PlanEmptyIffNoKey ==
  planIn.built =>
    /\ Len(plan) = 0 <=> (\A p \in ProviderId : ~credentialed(planIn.keys, p))
    /\ Len(plan) = 0 <=> ~hasAnyProviderKey(planIn.keys)
    /\ hasAnyProviderKey(planIn.keys) =>
         /\ Len(plan) > 0
         /\ plan[Len(plan)].countryResolution = "global"

\* The plan for a country no provider supports exactly, the only usable key
\* being one server key next to blank user keys: a proxy attempt, then the
\* global attempt.
C37_Witness ==
  /\ planIn.built /\ planIn.countryHint = "AX"
  /\ Cardinality({p \in ProviderId : credentialed(planIn.keys, p)}) = 1
  /\ \E p \in ProviderId : planIn.keys.user[p] = "  " /\ usable(planIn.keys, p, "server")
  /\ Len(plan) = 2
  /\ plan[1].countryResolution = "proxy" /\ plan[2].countryResolution = "global"

\* The calls of request r that consumed a unit of the budget.
consumedBy(r) == {k \in 1..Len(outbound[r]) : outbound[r][k].consumed}

\* The server-key entries of the plan of request r.
serverEntries(r) == {j \in 1..Len(attempts[r]) : attempts[r][j].keySource = "server"}

\* C38: while the counter stays with one UTC date it never decreases, the
\* step in which a call settles leaves it alone whatever the outcome, and a
\* request consumes one unit for each server entry it calls, never more
\* units than its plan has server entries.
C38_BudgetNeverRefunded ==
  /\ [][/\ serverKeyDailyMissState'.date = serverKeyDailyMissState.date
             => serverKeyDailyMissState'.misses >= serverKeyDailyMissState.misses
        /\ \A r \in Reqs : (StepOf(r) /\ pc[r] = "await")
             => serverKeyDailyMissState' = serverKeyDailyMissState]_vars
  /\ [](\A r \in Reqs :
          /\ Cardinality(consumedBy(r)) <= Cardinality(serverEntries(r))
          /\ \A k \in 1..Len(outbound[r]) :
               (req[r].route = "search" /\ outbound[r][k].keySource = "server") => outbound[r][k].consumed)

\* A request that consumed two units on one day for two server entries
\* whose calls both failed; the counter stands at two.
C38_Witness ==
  \E r \in Reqs :
    /\ Cardinality(consumedBy(r)) = 2
    /\ \A k \in consumedBy(r) : outbound[r][k].outcome \in {"timeout", "http_error", "transport"}
    /\ serverKeyDailyMissState.misses = 2
    /\ pc[r] = "done" /\ selected[r] = 0

\* Request r has been answered with a successful response: the 200 of
\* /api/search or the 200 "ok" of the probe.
succeeded(r) == pc[r] = "done" /\ response[r].status = 200 /\ response[r].error = "none"

\* What executeProviderAttempt gave for the last call request r issued.
lastUpstream(r) ==
  LET call == outbound[r][Len(outbound[r])]
      o == CHOOSE x \in Upstreams : x.kind = call.outcome
  IN executeProviderAttempt(attempts[r][call.i], o)

\* C39: in every successful response the winning attempt is the last entry
\* of the attempt trace and the only entry with a successful status; the
\* provider, key source, route reason and country parameter reported are
\* those of that attempt, and deduped + returned is the number of results
\* that attempt gave.
C39_WinnerIsLastAndReported ==
  \A r \in Reqs :
    succeeded(r) =>
      /\ selected[r] \in 1..Len(attempts[r])
      /\ Len(attemptTrace[r]) = selected[r]
      /\ Len(outbound[r]) >= 1
      /\ outbound[r][Len(outbound[r])].i = selected[r]
      /\ LET trace == attemptTrace[r]
             last == trace[Len(trace)]
             winner == attempts[r][selected[r]]
             meta == response[r].meta
         IN /\ isSuccess(last)
            /\ \A i \in 1..(Len(trace) - 1) : ~isSuccess(trace[i])
            /\ last.provider = winner.provider
            /\ last.key_source = winner.keySource
            /\ last.reason = winner.reason
            /\ last.status = lastUpstream(r).status
            /\ meta.provider = winner.provider
            /\ meta.provider_key_source = winner.keySource
            /\ meta.provider_route_reason = winner.reason
            /\ meta.exact_country_applied = winner.exactCountryApplied
            /\ meta.providers_tried = [i \in 1..Len(trace) |-> trace[i].provider]
            /\ meta.returned >= 0
            /\ req[r].route = "search" =>
                 /\ meta.applied_country_param = winner.countryParam
                 /\ meta.fetched_with = (IF winner.keySource = "user" THEN "user_key" ELSE "server_key")
                 /\ meta.deduped >= 0
                 /\ meta.deduped + meta.returned = Len(lastUpstream(r).results)

\* A search answered 200 by its second plan entry, an attempt of another
\* provider and another key source than the failed first one, whose three
\* results include one duplicate.
C39_Witness ==
  \E r \in Reqs :
    /\ succeeded(r) /\ req[r].route = "search"
    /\ selected[r] = 2
    /\ Len(attemptTrace[r]) = 2
    /\ ~isSuccess(attemptTrace[r][1])
    /\ attemptTrace[r][1].provider # attemptTrace[r][2].provider
    /\ attemptTrace[r][1].key_source # attemptTrace[r][2].key_source
    /\ response[r].meta.provider = attemptTrace[r][2].provider
    /\ response[r].meta.deduped = 1
    /\ response[r].meta.returned = 2

\* The step is the arrival of a search request in slot r.
arrives(r) == pc[r] = "new" /\ pc'[r] # "new" /\ req'[r].route = "search"

\* Request r passes the validation of /api/search: it has a query and some
\* provider key is configured.
valid(r) == req[r].q # "" /\ hasAnyProviderKey(req[r].keys)

\* The entries of list times that carry timestamp t.
stamped(times, t) == {i \in 1..Len(times) : times[i] = t}

\* C40: the rate-limit check is the first step of /api/search.  An arriving
\* request that finds fewer than LIMIT unexpired timestamps of its identity
\* appends the instant of its arrival, also when it is then answered 400 or
\* 503; one that finds LIMIT of them is answered 429 and appends nothing.
\* Every request turned away with 400 or 503 inside the window has its
\* timestamp in the bucket, so after LIMIT such requests the next request
\* of the identity, valid or not, is answered 429.
C40_RateLimitFirst ==
  /\ [][\A r \in Reqs :
          arrives(r) =>
            LET key == rlKey(req'[r].ip)
                before == unexpired(bucketOf(buckets, key), nowMs)
                turnedAway == unexpired(bucketOf(rejectedAt, key), nowMs)
            IN /\ Len(before) < LIMIT =>
                    /\ buckets'[key] = Append(before, nowMs)
                    /\ response'[r].status # 429
               /\ Len(before) >= LIMIT =>
                    /\ buckets'[key] = before
                    /\ pc'[r] = "done" /\ response'[r].status = 429
               /\ (pc'[r] = "done" /\ response'[r].status \in {400, 503}) =>
                    /\ buckets'[key] = Append(before, nowMs)
                    /\ rejectedAt'[key] = Append(bucketOf(rejectedAt, key), nowMs)
               /\ Len(turnedAway) >= LIMIT => (pc'[r] = "done" /\ response'[r].status = 429)
       ]_vars
  /\ [](\A key \in DOMAIN rejectedAt :
          \A i \in 1..Len(rejectedAt[key]) :
            rejectedAt[key][i] >= nowMs - WINDOW_MS =>
              Cardinality(stamped(rejectedAt[key], rejectedAt[key][i]))
                <= Cardinality(stamped(bucketOf(buckets, key), rejectedAt[key][i])))

\* A request with a query and a key of its own is answered 429 at the end
\* of the hour: the LIMIT timestamps it finds are those of LIMIT requests
\* that were answered 400 or 503, some at the start and some at the end.
C40_Witness ==
  \E r \in Reqs :
    /\ pc[r] = "done" /\ response[r].status = 429
    /\ valid(r)
    /\ nowMs = WINDOW_MS
    /\ Len(bucketOf(rejectedAt, rlKey(req[r].ip))) = LIMIT
    /\ bucketOf(buckets, rlKey(req[r].ip)) = bucketOf(rejectedAt, rlKey(req[r].ip))
    /\ Cardinality(stamped(bucketOf(rejectedAt, rlKey(req[r].ip)), 0)) = 2
====
